---------------------------- MODULE Spec2Model ----------------------------
(***************************************************************************)
(* CryptDiary: the cryptographic identity subsystem.                       *)
(*                                                                         *)
(*   key_manager.py     KeyManager: key pair, self-signed certificate,     *)
(*                      password-protected keystore, shared revocation     *)
(*                      ledger (revoked_certificates.json)                 *)
(*   crypto_manager.py  CryptoManager: hybrid encryption, timestamp-bound  *)
(*                      signatures, export / import                        *)
(*   user_manager.py    UserManager: accounts, password hashes, one        *)
(*                      directory and keystore per user                    *)
(*                                                                         *)
(* The specifications of this module share its definitions:                *)
(*   Spec      one process, call-and-return: signing, verification and     *)
(*             revocation; every method call is one step                   *)
(*   KsSpec    one process: key generation, save_keystore, load_keystore   *)
(*   LedgerSpec  one process: revoke_certificate, is_revoked in sequence   *)
(*   ConcSpec  several processes running revoke_certificate against the    *)
(*             shared ledger file; a step is one file access               *)
(*   EnvSpec   encrypt_entry / decrypt_entry on bytes: UTF-8, the padding  *)
(*             arithmetic, CBC chaining, and one changed bit of the stored *)
(*             envelope                                                    *)
(*   KeySpec   generate_key_pair with key sizes other than the default     *)
(*   FaultSpec the keystore of one directory with damage on disk and an    *)
(*             interrupted save_keystore                                   *)
(*   VerSpec   verify_signature with arbitrary arguments and an unreadable *)
(*             ledger                                                      *)
(*   ShareSpec export_entry / import_entry between two registered users    *)
(*             and a manager without keys                                  *)
(*   StoreSpec the files a KeyManager writes: keystore, certificate,       *)
(*             ledger; export_private_key_pem                              *)
(*   DiarySpec save_entry of the application: a new envelope per save      *)
(*   TrustSpec sealing, export, import and reading with revocations and    *)
(*             the lookups of the ledger in between                        *)
(*   FreshSpec verify_signature at later clock readings                    *)
(*   ReadSpec  verify_and_decrypt of an envelope with one field changed    *)
(*   UserSpec  user_manager.py: register_user, authenticate_user,          *)
(*             change_password and the login of the application            *)
(*                                                                         *)
(* The primitives of the `cryptography` package (RSA-OAEP, RSA-PSS,        *)
(* PBKDF2, PEM, X.509) are modelled as symbolic terms with the contract of *)
(* the primitive: a term opens only with the matching key.                 *)
(***************************************************************************)
EXTENDS Integers, Sequences, FiniteSets, TLC

(***************************************************************************)
(* Bounds of the model.                                                    *)
(***************************************************************************)
MaxKeys == 2
MaxCerts == 2
MaxClock == 1
MaxMsgs == 1
MaxRand == 1
MaxProcs == 2
MaxBlocks == 2

(***************************************************************************)
(* Program constants.                                                      *)
(***************************************************************************)
BLOCK == 16
VALID_DAYS == 365
KEY_SIZE == 2048
RSA_LIBRARY_MIN == 512

Dirs == {"alice", "bob"}
\* KeyManager objects and the user directory each one was constructed with.
Insts == {"a1", "a2", "b1"}
\* The sessions of Spec: one KeyManager per identity.
Sessions == {"a1", "b1"}
user_dir(i) == IF i = "b1" THEN "bob" ELSE "alice"
Passwords == {"pw1", "pw2"}
Data == {"hello", "world"}
Times == 0 .. MaxClock

None == [t |-> "None"]
NoFile == [t |-> "NoFile"]
Raised == [t |-> "raised"]
Garbage == [t |-> "garbage"]

(***************************************************************************)
(* Symbolic primitives.                                                    *)
(***************************************************************************)
PrivateKey(k, key_size) ==
    [t |-> "RSAPrivateKey", k |-> k, key_size |-> key_size]
\* private_key.public_key()
public_key_of(priv) ==
    [t |-> "RSAPublicKey", k |-> priv.k, key_size |-> priv.key_size]

\* private_bytes / public_bytes with Encoding.PEM, and the PEM loaders.
pem(obj) == [t |-> "PEM", of |-> obj]
load_pem(x, kind) ==
    IF x.t = "PEM" /\ x.of.t = kind THEN x.of ELSE Raised

b64encode(x) == [t |-> "b64", of |-> x]
b64decode(x) == IF x.t = "b64" THEN x.of ELSE Raised

json_dumps(d) == [t |-> "json", of |-> d]
json_loads(x) == IF x.t = "json" THEN x.of ELSE Raised

\* len(json.dumps(keystore_data).encode()): the keystore with a certificate
\* is longer; its residue modulo the block size is what the padding reads.
json_len(d) == IF "certificate" \in DOMAIN d THEN 3 * BLOCK ELSE 2 * BLOCK + 5

\* str(n) for a natural number: the string of its decimal digits.
RECURSIVE digits(_)
digits(n) == IF n < 10 THEN <<n>> ELSE Append(digits(n \div 10), n % 10)
str(n) == [t |-> "str", s |-> digits(n)]

\* A key derivation that reads the salt and not the password.
derive_key_from_salt(password, salt) ==
    [t |-> "PBKDF2", password |-> "", salt |-> salt]

\* PBKDF2HMAC(SHA256, length=32, salt, iterations=100000).derive(password)
_derive_key_from_password(password, salt) ==
    [t |-> "PBKDF2", password |-> password, salt |-> salt]

\* AES-CBC over a symbolic plaintext: opens under the same key and IV only.
cbc_encrypt(key, iv, padded) ==
    [t |-> "cbc", key |-> key, iv |-> iv, plain |-> padded]
cbc_decrypt(key, iv, c) ==
    IF c.t = "cbc" /\ c.key = key /\ c.iv = iv THEN c.plain ELSE Garbage

\* json_data + bytes([padding_length] * padding_length)
pad(data, n) ==
    [t |-> "padded", data |-> data, padding_length |-> BLOCK - (n % BLOCK)]
\* padding_length = decrypted_padded[-1]; decrypted_padded[:-padding_length]
unpad(x) == IF x.t = "padded" THEN x.data ELSE Garbage

(***************************************************************************)
(* KeyManager                                                              *)
(***************************************************************************)
KeyManager_init ==
    [private_key |-> None, public_key |-> None, certificate |-> None]

\* rsa.generate_private_key(65537, key_size): the library refuses the sizes
\* below RSA_LIBRARY_MIN with ValueError and takes every size from 1024 up
\* (the sizes in between depend on its version and are not drawn).
rsa_generate_private_key(k, key_size) ==
    IF key_size < RSA_LIBRARY_MIN THEN Raised ELSE PrivateKey(k, key_size)

\* generate_key_pair(key_size=2048); an exception of the library leaves the
\* attributes as they were.
generate_key_pair(self, k, key_size) ==
    LET private_key == rsa_generate_private_key(k, key_size)
    IN  IF private_key = Raised
        THEN [raised |-> TRUE, self |-> self]
        ELSE [raised |-> FALSE,
              self |-> [self EXCEPT !.private_key = private_key,
                                    !.public_key = public_key_of(private_key)]]

\* ValueError without a private key; the builder raises TypeError for a
\* public key of None.
generate_self_signed_certificate(self, subject_name, serial, t) ==
    IF self.private_key = None \/ self.public_key = None
    THEN [raised |-> TRUE, self |-> self]
    ELSE [raised |-> FALSE,
          self |-> [self EXCEPT !.certificate =
                [t |-> "Certificate",
                 subject |-> subject_name,
                 issuer |-> subject_name,
                 public_key |-> self.public_key,
                 serial_number |-> serial,
                 not_valid_before |-> t,
                 not_valid_after |-> t + VALID_DAYS,
                 signed_by |-> self.private_key]]]

get_certificate_serial(self) ==
    IF self.certificate # None
    THEN str(self.certificate.serial_number)
    ELSE None

export_certificate_pem(self) ==
    IF self.certificate = None THEN None ELSE pem(self.certificate)

\* The dictionary save_keystore encrypts.
keystore_data_of(self) ==
    LET base == [x \in {"private_key", "public_key"} |->
                    IF x = "private_key"
                    THEN b64encode(pem(self.private_key))
                    ELSE b64encode(pem(self.public_key))]
    IN  IF self.certificate # None
        THEN [x \in {"private_key", "public_key", "certificate"} |->
                 IF x = "certificate"
                 THEN b64encode(pem(self.certificate))
                 ELSE base[x]]
        ELSE base

\* save_keystore without its first check.
save_keystore_unchecked(self, password, salt, iv) ==
    [raised |-> FALSE,
     keystore |-> [salt |-> b64encode(salt),
                   iv |-> b64encode(iv),
                   data |-> b64encode(cbc_encrypt(
                       _derive_key_from_password(password, salt), iv,
                       pad(json_dumps(keystore_data_of(self)),
                           json_len(keystore_data_of(self)))))],
     cert |-> IF self.certificate # None THEN pem(self.certificate) ELSE NoFile]

\* save_keystore storing the padded JSON without encrypting it.
save_keystore_no_cipher(self, password, salt, iv) ==
    IF self.private_key = None \/ self.public_key = None
    THEN [raised |-> TRUE, keystore |-> NoFile, cert |-> NoFile]
    ELSE [raised |-> FALSE,
          keystore |-> [salt |-> b64encode(salt),
                        iv |-> b64encode(iv),
                        data |-> b64encode(
                            pad(json_dumps(keystore_data_of(self)),
                                json_len(keystore_data_of(self))))],
          cert |-> IF self.certificate # None THEN pem(self.certificate) ELSE NoFile]

\* Returns what the call leaves on disk: the keystore file and the
\* certificate file (NoFile: nothing written).  ValueError without a
\* private key; AttributeError at public_bytes for a public key of None.
save_keystore(self, password, salt, iv) ==
    IF self.private_key = None \/ self.public_key = None
    THEN [raised |-> TRUE, keystore |-> NoFile, cert |-> NoFile]
    ELSE LET keystore_data == keystore_data_of(self)
             key == _derive_key_from_password(password, salt)
             json_data == json_dumps(keystore_data)
             padded_data == pad(json_data, json_len(keystore_data))
             encrypted_data == cbc_encrypt(key, iv, padded_data)
         IN  [raised |-> FALSE,
              keystore |-> [salt |-> b64encode(salt),
                            iv |-> b64encode(iv),
                            data |-> b64encode(encrypted_data)],
              cert |-> IF self.certificate # None
                       THEN pem(self.certificate)
                       ELSE NoFile]

\* load_keystore without the else branch that clears the certificate.
load_keystore_fields_keep_cert(self, keystore_data) ==
    IF {"private_key", "public_key"} \subseteq DOMAIN keystore_data
    THEN LET s2 == [self EXCEPT
                      !.private_key = keystore_data["private_key"].of.of,
                      !.public_key = keystore_data["public_key"].of.of]
         IN  [ret |-> TRUE,
              self |-> IF "certificate" \in DOMAIN keystore_data
                       THEN [s2 EXCEPT !.certificate = keystore_data["certificate"].of.of]
                       ELSE s2]
    ELSE [ret |-> FALSE, self |-> self]

\* load_keystore assigns private_key, public_key and certificate one after
\* the other inside one try block: an exception at a later step leaves the
\* earlier assignments in place.
load_keystore_fields(self, keystore_data) ==
    IF "private_key" \notin DOMAIN keystore_data THEN [ret |-> FALSE, self |-> self]
    ELSE
    LET private == load_pem(b64decode(keystore_data["private_key"]), "RSAPrivateKey")
        s1 == [self EXCEPT !.private_key = private]
    IN  IF private = Raised THEN [ret |-> FALSE, self |-> self]
        ELSE IF "public_key" \notin DOMAIN keystore_data THEN [ret |-> FALSE, self |-> s1]
        ELSE
        LET public == load_pem(b64decode(keystore_data["public_key"]), "RSAPublicKey")
            s2 == [s1 EXCEPT !.public_key = public]
        IN  IF public = Raised THEN [ret |-> FALSE, self |-> s1]
            ELSE IF "certificate" \in DOMAIN keystore_data
            THEN LET cert == load_pem(b64decode(keystore_data["certificate"]), "Certificate")
                 IN  IF cert = Raised THEN [ret |-> FALSE, self |-> s2]
                     ELSE [ret |-> TRUE, self |-> [s2 EXCEPT !.certificate = cert]]
            ELSE [ret |-> TRUE, self |-> [s2 EXCEPT !.certificate = None]]

\* A file that is no JSON object with salt, iv and data (Garbage) raises
\* inside the try block before anything is assigned.
load_keystore(self, file, password) ==
    IF file = NoFile \/ file = Garbage THEN [ret |-> FALSE, self |-> self]
    ELSE
    LET salt == b64decode(file.salt)
        iv == b64decode(file.iv)
        encrypted_data == b64decode(file.data)
        key == _derive_key_from_password(password, salt)
        decrypted_padded == cbc_decrypt(key, iv, encrypted_data)
        decrypted_data == unpad(decrypted_padded)
        keystore_data == json_loads(decrypted_data)
    IN  IF keystore_data = Raised
        THEN [ret |-> FALSE, self |-> self]
        ELSE load_keystore_fields(self, keystore_data)


(***************************************************************************)
(* The revocation ledger, revoked_certificates.json.                       *)
(***************************************************************************)
\* datetime.utcnow().isoformat() + 'Z'
isoformat(t) == [t |-> "iso", v |-> t]

_load_global_revoked(file) ==
    IF file # NoFile THEN file ELSE [revoked |-> <<>>]

\* The loop leaving after its first entry.
has_serial_first_entry(revoked, serial_number) ==
    /\ Len(revoked.revoked) > 0
    /\ revoked.revoked[1].serial = serial_number

\* for entry in revoked['revoked']: if entry['serial'] == serial_number
has_serial(revoked, serial_number) ==
    \E n \in 1 .. Len(revoked.revoked) :
        revoked.revoked[n].serial = serial_number

\* revoked['revoked'].append({...}); the username "" stands for None.
append_entry(revoked, serial_number, username, t) ==
    [revoked |-> Append(revoked.revoked,
        [serial |-> serial_number,
         revoked_by |-> IF username # "" THEN username ELSE "unknown",
         timestamp |-> isoformat(t)])]

\* revoke_certificate without the "already revoked" loop.
revoke_certificate_unchecked(file, serial_number, username, t) ==
    [ret |-> TRUE, written |-> TRUE,
     file |-> append_entry(_load_global_revoked(file), serial_number, username, t)]

\* The whole call, given the file it reads: its return value and the file
\* it leaves (written: whether _save_global_revoked ran).
revoke_certificate(file, serial_number, username, t) ==
    LET revoked == _load_global_revoked(file)
    IN  IF has_serial(revoked, serial_number)
        THEN [ret |-> FALSE, written |-> FALSE, file |-> file]
        ELSE [ret |-> TRUE, written |-> TRUE,
              file |-> append_entry(revoked, serial_number, username, t)]

is_revoked(file, serial_number) ==
    has_serial(_load_global_revoked(file), serial_number)

get_revoked_certificates(file) == _load_global_revoked(file).revoked

(***************************************************************************)
(* CryptoManager: signatures.                                              *)
(***************************************************************************)
\* RSA-PSS (MGF1-SHA256, max salt length) over SHA-256.
pss_sign(private_key, prepared) ==
    [t |-> "pss", by |-> private_key.k, over |-> prepared]
\* A check that covers the data of the signed structure and not its
\* timestamp.
pss_verify_data_only(pub_key, signature, prepared) ==
    /\ signature.t = "pss"
    /\ signature.by = pub_key.k
    /\ json_loads(signature.over).data = json_loads(prepared).data

pss_verify(pub_key, signature, prepared) ==
    /\ signature.t = "pss"
    /\ signature.by = pub_key.k
    /\ signature.over = prepared

\* str.encode()
encode(data) == [t |-> "bytes", of |-> data]

\* json.dumps({'data': b64(data), 'timestamp': ts}, sort_keys=True).encode()
signed_structure(data, timestamp) ==
    json_dumps([data |-> b64encode(encode(data)), timestamp |-> timestamp])

_prepare_signed_data(data, t) == signed_structure(data, isoformat(t))

\* sign_entry reading the clock a second time for the timestamp it returns.
sign_entry_second_clock(self, data, t) ==
    IF self.private_key = None
    THEN [raised |-> TRUE, info |-> None]
    ELSE [raised |-> FALSE,
          info |-> [signature |-> b64encode(pss_sign(self.private_key,
                                      signed_structure(data, isoformat(t)))),
                    signed_timestamp |-> isoformat(t + 1),
                    cert_serial |-> IF self.certificate # None
                                    THEN str(self.certificate.serial_number)
                                    ELSE None]]

sign_entry(self, data, t) ==
    IF self.private_key = None
    THEN [raised |-> TRUE, info |-> None]
    ELSE LET prepared == _prepare_signed_data(data, t)
         IN  [raised |-> FALSE,
              info |-> [signature |-> b64encode(pss_sign(self.private_key, prepared)),
                        signed_timestamp |-> json_loads(prepared).timestamp,
                        cert_serial |-> get_certificate_serial(self)]]

\* Python truth value of an optional string.
truthy(x) == x # None /\ x # [t |-> "str", s |-> <<>>]

\* verify_signature treating a revoked certificate as an invalid signature.
verify_signature_revoked_invalid(self, file, data, signature_b64, timestamp, cert_serial, public_key, certificate) ==
    LET revoked == IF cert_serial # None
                   THEN has_serial(_load_global_revoked(file), cert_serial)
                   ELSE FALSE
        pub_key == IF certificate # None THEN certificate.public_key
                   ELSE IF public_key # None THEN public_key
                   ELSE self.public_key
    IN  IF signature_b64.t # "b64" \/ pub_key = None THEN <<FALSE, FALSE>>
        ELSE IF signature_b64.of.t = "pss" /\ signature_b64.of.by = pub_key.k
                /\ signature_b64.of.over =
                       json_dumps([data |-> b64encode([t |-> "bytes", of |-> data]),
                                   timestamp |-> timestamp])
        THEN <<~revoked, revoked>>
        ELSE <<FALSE, FALSE>>

\* The try block choosing the verifier's own key before the certificate.
verify_signature_try_own_key_first(self, file, data, signature_b64, timestamp, cert_serial, public_key, certificate) ==
    IF truthy(cert_serial) /\ file = Garbage THEN [exc |-> "Exception"]
    ELSE
    LET revoked == IF truthy(cert_serial) THEN is_revoked(file, cert_serial) ELSE FALSE
        prepared == signed_structure(data, timestamp)
        signature == b64decode(signature_b64)
        pub_key == IF self.public_key # None THEN self.public_key
                   ELSE IF public_key # None THEN public_key
                   ELSE IF certificate # None THEN certificate.public_key
                   ELSE None
    IN  IF signature = Raised \/ pub_key = None THEN [exc |-> "Exception"]
        ELSE IF pss_verify(pub_key, signature, prepared)
        THEN [exc |-> "none", ret |-> <<TRUE, revoked>>]
        ELSE [exc |-> "InvalidSignature"]

\* The try block of verify_signature: what it returns, or the exception
\* that leaves it.  json.load raises on a ledger file that is no JSON,
\* b64decode on a signature that is no base64 string, and the call of
\* verify on a public key of None.  public_key and certificate are None
\* when the caller leaves them out.
verify_signature_try(self, file, data, signature_b64, timestamp, cert_serial, public_key, certificate) ==
    IF truthy(cert_serial) /\ file = Garbage THEN [exc |-> "Exception"]
    ELSE
    LET revoked == IF truthy(cert_serial) THEN is_revoked(file, cert_serial) ELSE FALSE
        prepared == signed_structure(data, timestamp)
        signature == b64decode(signature_b64)
        pub_key == IF certificate # None THEN certificate.public_key
                   ELSE IF public_key # None THEN public_key
                   ELSE self.public_key
    IN  IF signature = Raised \/ pub_key = None THEN [exc |-> "Exception"]
        ELSE IF pss_verify(pub_key, signature, prepared)
        THEN [exc |-> "none", ret |-> <<TRUE, revoked>>]
        ELSE [exc |-> "InvalidSignature"]

\* verify_signature with the clause for InvalidSignature only.
verify_signature_call_one_except(self, file, data, signature_b64, timestamp, cert_serial, public_key, certificate) ==
    LET body == verify_signature_try(self, file, data, signature_b64, timestamp, cert_serial, public_key, certificate)
    IN  IF body.exc = "none" THEN [raised |-> FALSE, ret |-> body.ret]
        ELSE IF body.exc = "InvalidSignature"
        THEN [raised |-> FALSE, ret |-> <<FALSE, FALSE>>]
        ELSE [raised |-> TRUE, ret |-> <<FALSE, FALSE>>]

\* The whole method: except InvalidSignature and except Exception both
\* return (False, False).  raised: an exception leaves the method.
verify_signature_call(self, file, data, signature_b64, timestamp, cert_serial, public_key, certificate) ==
    LET body == verify_signature_try(self, file, data, signature_b64, timestamp, cert_serial, public_key, certificate)
    IN  IF body.exc = "none" THEN [raised |-> FALSE, ret |-> body.ret]
        ELSE IF body.exc = "InvalidSignature"
        THEN [raised |-> FALSE, ret |-> <<FALSE, FALSE>>]
        ELSE [raised |-> FALSE, ret |-> <<FALSE, FALSE>>]

\* Returns <<is_valid, is_revoked>>.
verify_signature(self, file, data, signature_b64, timestamp, cert_serial, public_key, certificate) ==
    verify_signature_call(self, file, data, signature_b64, timestamp, cert_serial, public_key, certificate).ret

(***************************************************************************)
(* State.  `last` records the call that has just returned.  saved,         *)
(* seen_valid and revoke_ok are history variables.  The wall clock         *)
(* (datetime.utcnow) is an input of each call that reads it.               *)
(***************************************************************************)
VARIABLES
    km,          \* KeyManager objects: private_key, public_key, certificate
    keystore,    \* <user_dir>/keystore.enc
    cert_file,   \* <user_dir>/certificate.pem
    ledger,      \* revoked_certificates.json
    nkeys,       \* key pairs drawn so far
    ncerts,      \* serial numbers drawn so far
    msgs,        \* what sign_entry has returned so far
    last,        \* the call that has just returned
    saved,       \* the PEM material and password of the last save per directory
    seen_valid,  \* <<message, public key>> pairs verified valid and unrevoked
    revoke_ok,   \* serials for which revoke_certificate has returned True
    proc,        \* ConcSpec: each process's place in revoke_certificate
    env          \* EnvSpec, ShareSpec: one envelope and what was done with it

vars == <<km, keystore, cert_file, ledger, nkeys, ncerts, msgs, last,
          saved, seen_valid, revoke_ok, proc, env>>

\* What the steps of Spec, KsSpec and LedgerSpec leave alone.
aux == <<proc, env>>

Procs == 1 .. MaxProcs
\* The user logged in in each process.
proc_user(p) == IF p % 2 = 1 THEN "alice" ELSE "bob"

\* x509.random_serial_number(): the n-th draw.
random_serial_number(n) == 7 * n + 5

\* os.urandom for salt and IV of the keystore.
Rand == 1 .. MaxRand

Init ==
    /\ km = [i \in Insts |-> KeyManager_init]
    /\ keystore = [d \in Dirs |-> NoFile]
    /\ cert_file = [d \in Dirs |-> NoFile]
    /\ ledger = NoFile
    /\ nkeys = 0
    /\ ncerts = 0
    /\ msgs = <<>>
    /\ last = [op |-> "init"]
    /\ saved = [d \in Dirs |-> None]
    /\ seen_valid = {}
    /\ revoke_ok = {}
    /\ proc = [p \in Procs |-> [pc |-> "idle", done |-> None]]
    /\ env = [pc |-> "start"]

GenerateKeyPair(i, key_size) ==
    /\ nkeys < MaxKeys
    /\ LET r == generate_key_pair(km[i], nkeys + 1, key_size)
       IN  /\ nkeys' = IF r.raised THEN nkeys ELSE nkeys + 1
           /\ km' = [km EXCEPT ![i] = r.self]
           /\ last' = IF key_size = KEY_SIZE
                      THEN [op |-> "generate_key_pair", inst |-> i]
                      ELSE [op |-> "generate_key_pair", inst |-> i,
                            key_size |-> key_size, raised |-> r.raised,
                            before |-> km[i]]
    /\ UNCHANGED <<keystore, cert_file, ledger, ncerts, msgs, saved,
                   seen_valid, revoke_ok>>
    /\ UNCHANGED aux

GenerateSelfSignedCertificate(i, t) ==
    /\ ncerts < MaxCerts
    /\ LET r == generate_self_signed_certificate(
                    km[i], user_dir(i), random_serial_number(ncerts + 1), t)
       IN  /\ km' = [km EXCEPT ![i] = r.self]
           /\ ncerts' = IF r.raised THEN ncerts ELSE ncerts + 1
           /\ last' = [op |-> "generate_self_signed_certificate", inst |-> i,
                       raised |-> r.raised]
    /\ UNCHANGED <<keystore, cert_file, ledger, nkeys, msgs, saved,
                   seen_valid, revoke_ok>>
    /\ UNCHANGED aux

SaveKeystore(i, password) ==
    \E salt \in Rand, iv \in Rand :
        LET r == save_keystore(km[i], password, salt, iv)
            d == user_dir(i)
        IN  /\ keystore' = IF r.raised THEN keystore
                           ELSE [keystore EXCEPT ![d] = r.keystore]
            /\ cert_file' = IF r.raised \/ r.cert = NoFile THEN cert_file
                            ELSE [cert_file EXCEPT ![d] = r.cert]
            /\ saved' = IF r.raised THEN saved
                        ELSE [saved EXCEPT ![d] =
                               [password |-> password,
                                private_key |-> pem(km[i].private_key),
                                public_key |-> pem(km[i].public_key),
                                certificate |-> export_certificate_pem(km[i])]]
            /\ last' = [op |-> "save_keystore", inst |-> i,
                        password |-> password, raised |-> r.raised]
            /\ UNCHANGED <<km, ledger, nkeys, ncerts, msgs, seen_valid,
                           revoke_ok>>
            /\ UNCHANGED aux

LoadKeystore(i, password) ==
    LET r == load_keystore(km[i], keystore[user_dir(i)], password)
    IN  /\ km' = [km EXCEPT ![i] = r.self]
        /\ last' = [op |-> "load_keystore", inst |-> i, password |-> password,
                    ret |-> r.ret, before |-> km[i]]
        /\ UNCHANGED <<keystore, cert_file, ledger, nkeys, ncerts, msgs,
                       saved, seen_valid, revoke_ok>>
        /\ UNCHANGED aux

SignEntry(i, data, t) ==
    /\ Len(msgs) < MaxMsgs
    /\ LET r == sign_entry(km[i], data, t)
       IN  /\ msgs' = IF r.raised THEN msgs
                      ELSE Append(msgs, [data |-> data, info |-> r.info,
                                         signer |-> i,
                                         signed_with |-> km[i].private_key,
                                         certificate |-> km[i].certificate])
           /\ last' = [op |-> "sign_entry", inst |-> i, raised |-> r.raised]
    /\ UNCHANGED <<km, keystore, cert_file, ledger, nkeys, ncerts, saved,
                   seen_valid, revoke_ok>>
    /\ UNCHANGED aux

\* The public key verify_signature ends up using.
pub_key_used(self, certificate) ==
    IF certificate # None THEN certificate.public_key ELSE self.public_key

\* Session j verifies message m for data and timestamp, with its own key
\* (mode "own") or with the signer's certificate (mode "cert").
VerifySignature(j, m, data, ts, mode) ==
    LET msg == msgs[m]
        certificate == IF mode = "cert" THEN msg.certificate ELSE None
        ret == verify_signature(km[j], ledger, data, msg.info.signature,
                                isoformat(ts), msg.info.cert_serial,
                                None, certificate)
        pub == pub_key_used(km[j], certificate)
    IN  /\ last' = [op |-> "verify_signature", inst |-> j, msg |-> m,
                    data |-> data, timestamp |-> isoformat(ts), mode |-> mode,
                    pub_key |-> pub, ret |-> ret]
        /\ seen_valid' = IF ret = <<TRUE, FALSE>> /\ data = msg.data
                            /\ isoformat(ts) = msg.info.signed_timestamp
                         THEN seen_valid \cup {<<m, pub>>}
                         ELSE seen_valid
        /\ UNCHANGED <<km, keystore, cert_file, ledger, nkeys, ncerts,
                       msgs, saved, revoke_ok>>
        /\ UNCHANGED aux

\* The serial strings of the certificates issued so far.
Serials == {str(random_serial_number(n)) : n \in 1 .. ncerts}

RevokeCertificate(i, serial_number, username, t) ==
    LET r == revoke_certificate(ledger, serial_number, username, t)
    IN  /\ ledger' = IF r.written THEN r.file ELSE ledger
        /\ revoke_ok' = IF r.ret THEN revoke_ok \cup {serial_number}
                        ELSE revoke_ok
        /\ last' = [op |-> "revoke_certificate", inst |-> i,
                    serial |-> serial_number, username |-> username,
                    ret |-> r.ret, before |-> ledger,
                    again |-> serial_number \in revoke_ok]
        /\ UNCHANGED <<km, keystore, cert_file, nkeys, ncerts, msgs,
                       saved, seen_valid>>
        /\ UNCHANGED aux

\* is_revoked saving the dictionary it has loaded, which creates the ledger
\* file when there was none.
IsRevokedWritesBack(i, serial_number) ==
    /\ ledger' = _load_global_revoked(ledger)
    /\ last' = [op |-> "is_revoked", inst |-> i, serial |-> serial_number,
                ret |-> is_revoked(ledger, serial_number)]
    /\ UNCHANGED <<km, keystore, cert_file, nkeys, ncerts, msgs,
                   saved, seen_valid, revoke_ok>>
    /\ UNCHANGED aux

IsRevoked(i, serial_number) ==
    /\ last' = [op |-> "is_revoked", inst |-> i, serial |-> serial_number,
                ret |-> is_revoked(ledger, serial_number)]
    /\ UNCHANGED <<km, keystore, cert_file, ledger, nkeys, ncerts, msgs,
                   saved, seen_valid, revoke_ok>>
    /\ UNCHANGED aux

Next ==
    \/ \E i \in Sessions : GenerateKeyPair(i, KEY_SIZE)
    \/ \E i \in Sessions : GenerateSelfSignedCertificate(i, 0)
    \/ \E i \in Sessions, data \in Data, t \in Times : SignEntry(i, data, t)
    \/ \E j \in Sessions, m \in 1 .. Len(msgs), data \in Data, ts \in Times,
          mode \in {"own", "cert"} : VerifySignature(j, m, data, ts, mode)
    \/ \E i \in Sessions, serial_number \in Serials :
          RevokeCertificate(i, serial_number, user_dir(i), 0)

Spec == Init /\ [][Next]_vars

\* Key generation and the keystore of one user directory.
KsInsts == {"a1", "a2"}

KsNext ==
    \/ \E i \in KsInsts : GenerateKeyPair(i, KEY_SIZE)
    \/ \E i \in KsInsts : GenerateSelfSignedCertificate(i, 0)
    \/ \E i \in KsInsts, password \in Passwords : SaveKeystore(i, password)
    \/ \E i \in KsInsts, password \in Passwords : LoadKeystore(i, password)

KsSpec == Init /\ [][KsNext]_vars

(***************************************************************************)
(* KeySpec: generate_key_pair with key sizes other than the default.       *)
(* FaultSpec: the key manager of one user directory with a keystore file   *)
(* that was damaged on disk and a save_keystore that fails or is           *)
(* interrupted between its writes.                                         *)
(***************************************************************************)
\* Key sizes a caller may pass: below what the library takes, below the
\* default, and the default.
KeySizes == {256, 1024, KEY_SIZE}

KeyNext ==
    \/ \E i \in Insts, key_size \in KeySizes : GenerateKeyPair(i, key_size)
    \/ \E i \in Insts : GenerateSelfSignedCertificate(i, 0)

KeySpec == Init /\ [][KeyNext]_vars

\* Structural damage of the decrypted dictionary: a field missing, or a
\* field that is no PEM of the expected kind.
Damages == {"no_private_key", "no_public_key", "bad_private_key",
            "bad_public_key", "bad_certificate"}
damaged(keystore_data, damage) ==
    IF damage = "no_private_key"
    THEN [x \in DOMAIN keystore_data \ {"private_key"} |-> keystore_data[x]]
    ELSE IF damage = "no_public_key"
    THEN [x \in DOMAIN keystore_data \ {"public_key"} |-> keystore_data[x]]
    ELSE IF damage = "bad_private_key"
    THEN [x \in DOMAIN keystore_data |->
             IF x = "private_key" THEN b64encode(Garbage) ELSE keystore_data[x]]
    ELSE IF damage = "bad_public_key"
    THEN [x \in DOMAIN keystore_data |->
             IF x = "public_key" THEN b64encode(Garbage) ELSE keystore_data[x]]
    ELSE [x \in DOMAIN keystore_data \cup {"certificate"} |->
             IF x = "certificate" THEN b64encode(Garbage) ELSE keystore_data[x]]

\* The file with the dictionary inside its encrypted blob damaged: it still
\* decrypts under its password.
damaged_file(file, damage) ==
    LET blob == b64decode(file.data)
        keystore_data == json_loads(unpad(blob.plain))
    IN  [file EXCEPT !.data =
            b64encode([blob EXCEPT !.plain =
                pad(json_dumps(damaged(keystore_data, damage)),
                    json_len(damaged(keystore_data, damage)))])]

\* The stored dictionary is as save_keystore wrote it.
intact(file) ==
    LET keystore_data == json_loads(unpad(b64decode(file.data).plain))
    IN  /\ {"private_key", "public_key"} \subseteq DOMAIN keystore_data
        /\ \A x \in DOMAIN keystore_data : keystore_data[x] # b64encode(Garbage)

\* keystore.enc as load_keystore finds it after damage on disk: one
\* structural damage of the stored dictionary, or (damage "malformed") a
\* file that is no JSON at all.
CorruptKeystore(d, damage) ==
    /\ keystore[d] # NoFile
    /\ keystore[d] # Garbage
    /\ intact(keystore[d])
    /\ keystore' = [keystore EXCEPT ![d] =
          IF damage = "malformed" THEN Garbage
          ELSE damaged_file(keystore[d], damage)]
    /\ last' = [op |-> "damage", dir |-> d, damage |-> damage]
    /\ UNCHANGED <<km, cert_file, ledger, nkeys, ncerts, msgs, saved,
                   seen_valid, revoke_ok>>
    /\ UNCHANGED aux

\* save_keystore failing or stopped between its file operations: after
\* open(keystore_path, 'w') has truncated the file and before json.dump has
\* written it out ("dump"), or after the keystore is written and before the
\* certificate file is ("cert").
SaveKeystoreInterrupted(i, password, stage) ==
    \E salt \in Rand, iv \in Rand :
        LET r == save_keystore(km[i], password, salt, iv)
            d == user_dir(i)
        IN  /\ ~r.raised
            /\ stage = "cert" => r.cert # NoFile
            /\ keystore' = [keystore EXCEPT ![d] =
                              IF stage = "dump" THEN Garbage ELSE r.keystore]
            /\ saved' = IF stage = "dump" THEN saved
                        ELSE [saved EXCEPT ![d] =
                               [password |-> password,
                                private_key |-> pem(km[i].private_key),
                                public_key |-> pem(km[i].public_key),
                                certificate |-> export_certificate_pem(km[i])]]
            /\ last' = [op |-> "save_keystore", inst |-> i,
                        password |-> password, raised |-> TRUE,
                        stage |-> stage, file_before |-> keystore[d],
                        file_new |-> r.keystore]
            /\ UNCHANGED <<km, cert_file, ledger, nkeys, ncerts, msgs,
                           seen_valid, revoke_ok>>
            /\ UNCHANGED aux

FaultNext ==
    \/ \E i \in KsInsts : GenerateKeyPair(i, KEY_SIZE)
    \/ \E i \in KsInsts : GenerateSelfSignedCertificate(i, 0)
    \/ \E i \in KsInsts : SaveKeystore(i, "pw1")
    \/ \E i \in KsInsts : LoadKeystore(i, "pw1")
    \/ \E damage \in Damages \cup {"malformed"} :
          CorruptKeystore("alice", damage)
    \/ \E i \in KsInsts, stage \in {"dump", "cert"} :
          SaveKeystoreInterrupted(i, "pw1", stage)

FaultSpec == Init /\ [][FaultNext]_vars

\* Revocations and lookups, one call after the other.
LedgerNext ==
    \/ \E i \in Sessions : GenerateKeyPair(i, KEY_SIZE)
    \/ \E i \in Sessions : GenerateSelfSignedCertificate(i, 0)
    \/ \E i \in Sessions, serial_number \in Serials, t \in Times :
          \E username \in {user_dir(i), ""} :
              RevokeCertificate(i, serial_number, username, t)
    \/ \E i \in Sessions, serial_number \in Serials : IsRevoked(i, serial_number)

LedgerSpec == Init /\ [][LedgerNext]_vars

(***************************************************************************)
(* ConcSpec: processes (one identity session each) call revoke_certificate *)
(* and is_revoked on the one ledger file.  revoke_certificate reads the    *)
(* file (_load_global_revoked), works on its copy and writes the file      *)
(* whole (_save_global_revoked); nothing locks the file in between.  Each  *)
(* file access is one step.                                                *)
(***************************************************************************)
\* The serials the processes revoke.
ConcSerials == {str(random_serial_number(n)) : n \in 1 .. MaxCerts}

\* revoked = self._load_global_revoked()
RevokeLoad(p, serial_number, username) ==
    /\ proc[p].pc = "idle"
    /\ proc' = [proc EXCEPT ![p] =
                  [pc |-> "loaded", serial_number |-> serial_number,
                   username |-> username, read |-> ledger,
                   done |-> proc[p].done]]
    /\ UNCHANGED <<km, keystore, cert_file, ledger, nkeys, ncerts, msgs, last,
                   saved, seen_valid, revoke_ok, env>>

\* The loop, the append, _save_global_revoked and the return, on the copy
\* read at RevokeLoad.
RevokeReturn(p, t) ==
    /\ proc[p].pc = "loaded"
    /\ LET r == revoke_certificate(proc[p].read, proc[p].serial_number,
                                   proc[p].username, t)
       IN  /\ ledger' = IF r.written THEN r.file ELSE ledger
           /\ revoke_ok' = IF r.ret THEN revoke_ok \cup {proc[p].serial_number}
                           ELSE revoke_ok
           /\ proc' = [proc EXCEPT ![p] =
                         [pc |-> "idle",
                          done |-> [serial |-> proc[p].serial_number,
                                    ret |-> r.ret]]]
           /\ last' = [op |-> "revoke_certificate", inst |-> p,
                       serial |-> proc[p].serial_number, ret |-> r.ret]
    /\ UNCHANGED <<km, keystore, cert_file, nkeys, ncerts, msgs, saved,
                   seen_valid, env>>

ConcIsRevoked(p, serial_number) ==
    /\ proc[p].pc = "idle"
    /\ last' = [op |-> "is_revoked", inst |-> p, serial |-> serial_number,
                ret |-> is_revoked(ledger, serial_number)]
    /\ UNCHANGED <<km, keystore, cert_file, ledger, nkeys, ncerts, msgs,
                   saved, seen_valid, revoke_ok, proc, env>>

ConcNext ==
    \/ \E p \in Procs, serial_number \in ConcSerials :
          RevokeLoad(p, serial_number, proc_user(p))
    \/ \E p \in Procs, t \in Times : RevokeReturn(p, t)
    \/ \E p \in Procs, serial_number \in ConcSerials :
          ConcIsRevoked(p, serial_number)

ConcSpec == Init /\ [][ConcNext]_vars

(***************************************************************************)
(* CryptoManager: hybrid encryption, on bytes.  A string is a sequence of  *)
(* Unicode code points, bytes are numbers 0..255.  The block cipher is a   *)
(* keyed permutation of 16-byte blocks standing in for AES-256; the CBC    *)
(* chaining and the padding arithmetic are those of the code.              *)
(***************************************************************************)
\* str.encode(): UTF-8.
utf8_char(c) ==
    IF c < 128 THEN <<c>>
    ELSE IF c < 2048 THEN <<192 + (c \div 64), 128 + (c % 64)>>
    ELSE IF c < 65536
    THEN <<224 + (c \div 4096), 128 + ((c \div 64) % 64), 128 + (c % 64)>>
    ELSE <<240 + (c \div 262144), 128 + ((c \div 4096) % 64),
           128 + ((c \div 64) % 64), 128 + (c % 64)>>

RECURSIVE utf8_encode(_)
utf8_encode(text) ==
    IF text = <<>> THEN <<>>
    ELSE utf8_char(Head(text)) \o utf8_encode(Tail(text))

\* str.encode() raises UnicodeEncodeError on a surrogate code point.
is_surrogate(c) == c >= 55296 /\ c <= 57343
encodable(text) == \A n \in 1 .. Len(text) : ~is_surrogate(text[n])

is_cont(b) == b >= 128 /\ b <= 191

\* bytes.decode(): strict UTF-8; [ok |-> FALSE] is UnicodeDecodeError.
RECURSIVE utf8_decode_from(_, _, _)
utf8_decode_from(b, n, acc) ==
    IF n > Len(b) THEN [ok |-> TRUE, text |-> acc]
    ELSE LET b0 == b[n]
             need == IF b0 < 128 THEN 0
                     ELSE IF b0 >= 194 /\ b0 <= 223 THEN 1
                     ELSE IF b0 >= 224 /\ b0 <= 239 THEN 2
                     ELSE IF b0 >= 240 /\ b0 <= 244 THEN 3
                     ELSE 4
         IN  IF need = 4 \/ n + need > Len(b) THEN [ok |-> FALSE, text |-> <<>>]
             ELSE IF \E k \in 1 .. need : ~is_cont(b[n + k])
             THEN [ok |-> FALSE, text |-> <<>>]
             ELSE IF \/ (b0 = 224 /\ b[n + 1] < 160)
                     \/ (b0 = 237 /\ b[n + 1] > 159)
                     \/ (b0 = 240 /\ b[n + 1] < 144)
                     \/ (b0 = 244 /\ b[n + 1] > 143)
             THEN [ok |-> FALSE, text |-> <<>>]
             ELSE LET c == IF need = 0 THEN b0
                           ELSE IF need = 1 THEN (b0 - 192) * 64 + (b[n + 1] - 128)
                           ELSE IF need = 2
                           THEN (b0 - 224) * 4096 + (b[n + 1] - 128) * 64
                                + (b[n + 2] - 128)
                           ELSE (b0 - 240) * 262144 + (b[n + 1] - 128) * 4096
                                + (b[n + 2] - 128) * 64 + (b[n + 3] - 128)
                  IN  utf8_decode_from(b, n + need + 1, Append(acc, c))

utf8_decode(b) == utf8_decode_from(b, 1, <<>>)

\* Bitwise exclusive or of two bytes.
RECURSIVE xor(_, _)
xor(a, b) ==
    IF a = 0 THEN b
    ELSE IF b = 0 THEN a
    ELSE ((a + b) % 2) + 2 * xor(a \div 2, b \div 2)

xor_block(x, y) == [n \in 1 .. BLOCK |-> xor(x[n], y[n])]

\* os.urandom(n): the bytes of the draw with this seed.
urandom(n, seed) == [k \in 1 .. n |-> (97 * seed + 31 * k) % 256]

\* The block cipher: a permutation of the 16-byte blocks for each 32-byte
\* key (the bytes rotate by one place and each takes two key bytes).
block_encrypt(key, x) ==
    [n \in 1 .. BLOCK |-> (x[(n % BLOCK) + 1] + key[n] + key[n + BLOCK]) % 256]
block_decrypt(key, y) ==
    [n \in 1 .. BLOCK |->
        LET m == ((n + BLOCK - 2) % BLOCK) + 1
        IN  (y[m] + 512 - key[m] - key[m + BLOCK]) % 256]

block_at(b, k) == SubSeq(b, (k - 1) * BLOCK + 1, k * BLOCK)

\* Cipher(AES(key), CBC(iv)).encryptor(): update + finalize.
RECURSIVE aes_cbc_encrypt_from(_, _, _, _)
aes_cbc_encrypt_from(key, prev, padded, k) ==
    IF k * BLOCK > Len(padded) THEN <<>>
    ELSE LET c == block_encrypt(key, xor_block(block_at(padded, k), prev))
         IN  c \o aes_cbc_encrypt_from(key, c, padded, k + 1)

aes_cbc_encrypt(key, iv, padded) == aes_cbc_encrypt_from(key, iv, padded, 1)

\* Cipher(AES(key), CBC(iv)).decryptor(): update + finalize; finalize
\* raises unless the data is a whole number of blocks.
RECURSIVE aes_cbc_decrypt_from(_, _, _, _)
aes_cbc_decrypt_from(key, prev, ciphertext, k) ==
    IF k * BLOCK > Len(ciphertext) THEN <<>>
    ELSE LET c == block_at(ciphertext, k)
         IN  xor_block(block_decrypt(key, c), prev)
             \o aes_cbc_decrypt_from(key, c, ciphertext, k + 1)

aes_cbc_decrypt(key, iv, ciphertext) ==
    aes_cbc_decrypt_from(key, iv, ciphertext, 1)

\* RSA-OAEP (MGF1-SHA256, SHA-256): opens with the paired private key, and
\* only if no bit of the ciphertext was changed.
oaep_encrypt(public_key, message) ==
    [t |-> "oaep", to |-> public_key.k, message |-> message, flipped |-> {}]
\* A decryption that opens under any private key.
oaep_decrypt_any_key(private_key, c) ==
    IF c.t = "oaep" /\ c.flipped = {}
    THEN [raised |-> FALSE, message |-> c.message]
    ELSE [raised |-> TRUE, message |-> <<>>]

oaep_decrypt(private_key, c) ==
    IF c.t = "oaep" /\ c.to = private_key.k /\ c.flipped = {}
    THEN [raised |-> FALSE, message |-> c.message]
    ELSE [raised |-> TRUE, message |-> <<>>]

\* Padding that adds nothing to a whole number of blocks.
pad_bytes_no_full_block(plaintext_bytes) ==
    LET padding_length == (BLOCK - (Len(plaintext_bytes) % BLOCK)) % BLOCK
    IN  plaintext_bytes \o [n \in 1 .. padding_length |-> padding_length]

\* plaintext_bytes + bytes([padding_length] * padding_length)
pad_bytes(plaintext_bytes) ==
    LET padding_length == BLOCK - (Len(plaintext_bytes) % BLOCK)
    IN  plaintext_bytes \o [n \in 1 .. padding_length |-> padding_length]

\* padded_plaintext[:-padding_length] with padding_length the last byte
\* (Python slicing: -0 is 0, and a cut before the start gives b'').
strip_padding(padded_plaintext) ==
    LET padding_length == padded_plaintext[Len(padded_plaintext)]
    IN  IF padding_length = 0 \/ padding_length >= Len(padded_plaintext)
        THEN <<>>
        ELSE SubSeq(padded_plaintext, 1, Len(padded_plaintext) - padding_length)

\* encrypt_entry with an IV that is the same in every call.
encrypt_entry_constant_iv(self, plaintext, key_seed, iv_seed, t) ==
    IF ~encodable(plaintext) \/ self.public_key = None
    THEN [raised |-> TRUE, data |-> None]
    ELSE
    LET aes_key == urandom(2 * BLOCK, key_seed)
        iv == urandom(BLOCK, 0)
    IN  [raised |-> FALSE,
         data |-> [encrypted_key |-> b64encode(oaep_encrypt(self.public_key, aes_key)),
                   iv |-> b64encode(iv),
                   ciphertext |-> b64encode(aes_cbc_encrypt(aes_key, iv,
                                      pad_bytes(utf8_encode(plaintext)))),
                   timestamp |-> isoformat(t)]]

\* [raised |-> TRUE]: UnicodeEncodeError from plaintext.encode(), or the
\* AttributeError of a KeyManager without keys.
encrypt_entry(self, plaintext, key_seed, iv_seed, t) ==
    IF ~encodable(plaintext) \/ self.public_key = None
    THEN [raised |-> TRUE, data |-> None]
    ELSE
    LET aes_key == urandom(2 * BLOCK, key_seed)
        iv == urandom(BLOCK, iv_seed)
        padded_plaintext == pad_bytes(utf8_encode(plaintext))
        ciphertext == aes_cbc_encrypt(aes_key, iv, padded_plaintext)
        encrypted_aes_key == oaep_encrypt(self.public_key, aes_key)
    IN  [raised |-> FALSE,
         data |-> [encrypted_key |-> b64encode(encrypted_aes_key),
                   iv |-> b64encode(iv),
                   ciphertext |-> b64encode(ciphertext),
                   timestamp |-> isoformat(t)]]

\* [raised |-> TRUE] is Exception("Decryption failed: ...").
decrypt_entry(self, encrypted_data) ==
    LET failed == [raised |-> TRUE, plaintext |-> <<>>]
        encrypted_aes_key == b64decode(encrypted_data.encrypted_key)
        iv == b64decode(encrypted_data.iv)
        ciphertext == b64decode(encrypted_data.ciphertext)
    IN  IF self.private_key = None THEN failed
        ELSE
        LET opened == oaep_decrypt(self.private_key, encrypted_aes_key)
            aes_key == opened.message
        IN  IF opened.raised THEN failed
            ELSE IF Len(iv) # BLOCK \/ Len(ciphertext) % BLOCK # 0
                    \/ Len(ciphertext) = 0
            THEN failed
            ELSE
            LET padded_plaintext == aes_cbc_decrypt(aes_key, iv, ciphertext)
                decoded == utf8_decode(strip_padding(padded_plaintext))
            IN  IF decoded.ok
                THEN [raised |-> FALSE, plaintext |-> decoded.text]
                ELSE failed

encrypt_and_sign(self, plaintext, key_seed, iv_seed, t) ==
    LET encrypted == encrypt_entry(self, plaintext, key_seed, iv_seed, t)
    IN  IF encrypted.raised THEN encrypted
        ELSE
        LET signature_info == sign_entry(self, encrypted.data.ciphertext, t).info
        IN  [raised |-> FALSE,
             data |-> [encrypted_key |-> encrypted.data.encrypted_key,
                       iv |-> encrypted.data.iv,
                       ciphertext |-> encrypted.data.ciphertext,
                       timestamp |-> encrypted.data.timestamp,
                       signature |-> signature_info.signature,
                       signed_timestamp |-> signature_info.signed_timestamp,
                       cert_serial |-> signature_info.cert_serial]]

\* verify_and_decrypt checking the signature only of an envelope that
\* names a certificate serial.
verify_and_decrypt_needs_serial(self, file, encrypted_data) ==
    LET verdict ==
            IF {"signature", "signed_timestamp", "cert_serial"}
                   \subseteq DOMAIN encrypted_data
            THEN verify_signature(self, file, encrypted_data.ciphertext,
                                  encrypted_data.signature,
                                  encrypted_data.signed_timestamp,
                                  encrypted_data.cert_serial, None, None)
            ELSE <<FALSE, FALSE>>
        decrypted == decrypt_entry(self, encrypted_data)
    IN  [raised |-> decrypted.raised,
         plaintext |-> decrypted.plaintext,
         is_valid |-> verdict[1],
         is_revoked |-> verdict[2]]

\* verify_and_decrypt refusing to decrypt what it could not verify.
verify_and_decrypt_gated(self, file, encrypted_data) ==
    LET verdict ==
            IF "signature" \in DOMAIN encrypted_data
               /\ "signed_timestamp" \in DOMAIN encrypted_data
            THEN verify_signature(self, file, encrypted_data.ciphertext,
                                  encrypted_data.signature,
                                  encrypted_data.signed_timestamp,
                                  IF "cert_serial" \in DOMAIN encrypted_data
                                  THEN encrypted_data.cert_serial ELSE None,
                                  None, None)
            ELSE <<FALSE, FALSE>>
        decrypted == decrypt_entry(self, encrypted_data)
    IN  [raised |-> decrypted.raised \/ ~verdict[1],
         plaintext |-> IF verdict[1] THEN decrypted.plaintext ELSE <<>>,
         is_valid |-> verdict[1],
         is_revoked |-> verdict[2]]

\* Returns (plaintext, is_valid, is_revoked), or raises what decrypt_entry
\* raises; the signature is checked with the caller's own public key.
verify_and_decrypt(self, file, encrypted_data) ==
    LET verdict ==
            IF "signature" \in DOMAIN encrypted_data
               /\ "signed_timestamp" \in DOMAIN encrypted_data
            THEN verify_signature(self, file, encrypted_data.ciphertext,
                                  encrypted_data.signature,
                                  encrypted_data.signed_timestamp,
                                  IF "cert_serial" \in DOMAIN encrypted_data
                                  THEN encrypted_data.cert_serial ELSE None,
                                  None, None)
            ELSE <<FALSE, FALSE>>
        decrypted == decrypt_entry(self, encrypted_data)
    IN  [raised |-> decrypted.raised,
         plaintext |-> decrypted.plaintext,
         is_valid |-> verdict[1],
         is_revoked |-> verdict[2]]

(***************************************************************************)
(* EnvSpec: two registered users, one envelope.  A user seals a plaintext, *)
(* one bit of the stored envelope may be changed, and a user opens it.     *)
(***************************************************************************)
\* Plaintexts: a run of 'a' and then nothing, e-acute (2 bytes), the euro
\* sign and an emoji (3 + 4 bytes), or a lone surrogate.
Tails == {<<>>, <<233>>, <<8364, 128512>>, <<55296>>}
Plaintexts ==
    {[n \in 1 .. m |-> 97] \o tail : m \in 0 .. MaxBlocks * BLOCK + 1,
                                     tail \in Tails}

\* register_user: generate_key_pair, generate_self_signed_certificate,
\* save_keystore.
registered(i, k) ==
    generate_self_signed_certificate(
        generate_key_pair(KeyManager_init, k, KEY_SIZE).self, user_dir(i),
        random_serial_number(k), 0).self

\* Two registered users (a1 is alice, b1 is bob) and a2, a manager of
\* alice's directory that has loaded nothing.
RegisteredInit ==
    /\ km = [i \in Insts |->
               IF i \in Sessions
               THEN registered(i, IF user_dir(i) = "alice" THEN 1 ELSE 2)
               ELSE KeyManager_init]
    /\ keystore = [d \in Dirs |->
                     save_keystore(registered(CHOOSE i \in Sessions :
                                                  user_dir(i) = d,
                                              IF d = "alice" THEN 1 ELSE 2),
                                   "pw1", 1, 1).keystore]
    /\ cert_file = [d \in Dirs |->
                     save_keystore(registered(CHOOSE i \in Sessions :
                                                  user_dir(i) = d,
                                              IF d = "alice" THEN 1 ELSE 2),
                                   "pw1", 1, 1).cert]
    /\ ledger = NoFile
    /\ nkeys = 2
    /\ ncerts = 2
    /\ msgs = <<>>
    /\ last = [op |-> "init"]
    /\ saved = [d \in Dirs |-> None]
    /\ seen_valid = {}
    /\ revoke_ok = {}
    /\ proc = [p \in Procs |-> [pc |-> "idle", done |-> None]]

EnvInit ==
    /\ RegisteredInit
    /\ env = [pc |-> "start"]

env_rest == <<km, keystore, cert_file, ledger, nkeys, ncerts, msgs, last,
              saved, seen_valid, revoke_ok, proc>>

\* save_entry without a signature: encrypt_entry alone.
EncryptEntry(i, plaintext) ==
    /\ env.pc = "start"
    /\ \E key_seed \in Rand, iv_seed \in Rand :
         LET r == encrypt_entry(km[i], plaintext, key_seed, iv_seed, 0)
         IN  env' = IF r.raised
                    THEN [pc |-> "refused", owner |-> i,
                          plaintext |-> plaintext]
                    ELSE [pc |-> "sealed", owner |-> i,
                          plaintext |-> plaintext, signed |-> FALSE,
                          data |-> r.data, tampered |-> None]
    /\ UNCHANGED env_rest

EncryptAndSign(i, plaintext) ==
    /\ env.pc = "start"
    /\ \E key_seed \in Rand, iv_seed \in Rand :
         LET r == encrypt_and_sign(km[i], plaintext, key_seed, iv_seed, 0)
         IN  env' = IF r.raised
                    THEN [pc |-> "refused", owner |-> i,
                          plaintext |-> plaintext]
                    ELSE [pc |-> "sealed", owner |-> i,
                          plaintext |-> plaintext, signed |-> TRUE,
                          data |-> r.data, tampered |-> None]
    /\ UNCHANGED env_rest

\* One bit of one byte changed.
flip(bytes, pos, bit) ==
    [bytes EXCEPT ![pos] = xor(bytes[pos], 2 ^ bit)]

\* The bytes changed in the stored envelope: the first and the last of the
\* field, any bit of them.
TamperFields == {"ciphertext", "encrypted_key", "iv"}
TamperBits == 0 .. 7
RSA_BYTES == 256
field_len(data, field) ==
    IF field = "encrypted_key" THEN RSA_BYTES ELSE Len(b64decode(data[field]))

tamper(data, field, pos, bit) ==
    IF field = "encrypted_key"
    THEN [data EXCEPT !.encrypted_key =
            b64encode([b64decode(data.encrypted_key)
                          EXCEPT !.flipped = {<<pos, bit>>}])]
    ELSE [data EXCEPT ![field] = b64encode(flip(b64decode(data[field]), pos, bit))]

\* Someone with access to the entry file changes one bit of it.
Tamper(field, last_byte, bit) ==
    /\ env.pc = "sealed"
    /\ env.signed
    /\ env.tampered = None
    /\ LET pos == IF last_byte THEN field_len(env.data, field) ELSE 1
       IN  env' = [env EXCEPT !.data = tamper(env.data, field, pos, bit),
                              !.tampered = [field |-> field, pos |-> pos,
                                            bit |-> bit]]
    /\ UNCHANGED env_rest

DecryptEntry(j) ==
    /\ env.pc = "sealed"
    /\ LET r == decrypt_entry(km[j], env.data)
       IN  env' = [pc |-> "opened", owner |-> env.owner,
                   plaintext |-> env.plaintext, signed |-> env.signed,
                   data |-> env.data, tampered |-> env.tampered,
                   reader |-> j, op |-> "decrypt_entry",
                   raised |-> r.raised, out |-> r.plaintext,
                   is_valid |-> FALSE, is_revoked |-> FALSE]
    /\ UNCHANGED env_rest

\* load_entry: verify_and_decrypt.
VerifyAndDecrypt(j) ==
    /\ env.pc = "sealed"
    /\ LET r == verify_and_decrypt(km[j], ledger, env.data)
       IN  env' = [pc |-> "opened", owner |-> env.owner,
                   plaintext |-> env.plaintext, signed |-> env.signed,
                   data |-> env.data, tampered |-> env.tampered,
                   reader |-> j, op |-> "verify_and_decrypt",
                   raised |-> r.raised, out |-> r.plaintext,
                   is_valid |-> r.is_valid, is_revoked |-> r.is_revoked]
    /\ UNCHANGED env_rest

EnvNext ==
    \/ \E i \in Sessions, plaintext \in Plaintexts : EncryptEntry(i, plaintext)
    \/ \E i \in Sessions, plaintext \in Plaintexts : EncryptAndSign(i, plaintext)
    \/ \E field \in TamperFields, last_byte \in BOOLEAN, bit \in TamperBits :
          Tamper(field, last_byte, bit)
    \/ \E j \in Sessions : DecryptEntry(j)
    \/ \E j \in Sessions : VerifyAndDecrypt(j)

EnvSpec == EnvInit /\ [][EnvNext]_vars

(***************************************************************************)
(* CryptoManager: export and import of an entry.                           *)
(***************************************************************************)
\* export_entry without the check of the certificate.
export_entry_unchecked(self, entry_id, metadata, encrypted_data) ==
    [raised |-> FALSE,
     package |-> [entry_id |-> entry_id,
                  title |-> metadata.title,
                  created |-> metadata.created,
                  encrypted_data |-> encrypted_data,
                  signer_certificate |-> export_certificate_pem(self)]]

\* ValueError("No certificate available to export.") without a certificate.
export_entry(self, entry_id, metadata, encrypted_data) ==
    LET cert_pem == export_certificate_pem(self)
    IN  IF cert_pem = None
        THEN [raised |-> TRUE, package |-> None]
        ELSE [raised |-> FALSE,
              package |-> [entry_id |-> entry_id,
                           title |-> metadata.title,
                           created |-> metadata.created,
                           encrypted_data |-> encrypted_data,
                           signer_certificate |-> cert_pem]]

\* import_entry asking verify_signature without the certificate.
import_entry_own_key(self, file, package) ==
    LET cert == load_pem(package.signer_certificate, "Certificate")
        enc_data == package.encrypted_data
    IN  IF cert = Raised \/ file = Garbage
           \/ ~({"ciphertext", "signature", "signed_timestamp"}
                    \subseteq DOMAIN enc_data)
        THEN [raised |-> TRUE]
        ELSE [raised |-> FALSE,
              metadata |-> [title |-> package.title,
                            created |-> package.created,
                            imported_from |-> cert.subject],
              encrypted_data |-> package.encrypted_data,
              sig_valid |-> verify_signature(self, file, enc_data.ciphertext,
                                enc_data.signature, enc_data.signed_timestamp,
                                str(cert.serial_number), None, None)[1],
              is_revoked |-> is_revoked(file, str(cert.serial_number)),
              cert |-> cert]

\* import_entry returning the revocation flag verify_signature computed.
import_entry_flag_of_verify(self, file, package) ==
    LET cert == load_pem(package.signer_certificate, "Certificate")
        enc_data == package.encrypted_data
    IN  IF cert = Raised \/ file = Garbage
           \/ ~({"ciphertext", "signature", "signed_timestamp"}
                    \subseteq DOMAIN enc_data)
        THEN [raised |-> TRUE]
        ELSE LET verdict == verify_signature(self, file, enc_data.ciphertext,
                                enc_data.signature, enc_data.signed_timestamp,
                                str(cert.serial_number), None, cert)
             IN  [raised |-> FALSE,
                  metadata |-> [title |-> package.title,
                                created |-> package.created,
                                imported_from |-> cert.subject],
                  encrypted_data |-> package.encrypted_data,
                  sig_valid |-> verdict[1],
                  is_revoked |-> verdict[2],
                  cert |-> cert]

\* Returns (metadata, encrypted_data, sig_valid, is_revoked, cert).  It
\* raises on a certificate that is no PEM, on an unreadable ledger (its own
\* is_revoked call is outside any try) and on an envelope without signature
\* fields (KeyError).
import_entry(self, file, package) ==
    LET cert == load_pem(package.signer_certificate, "Certificate")
        enc_data == package.encrypted_data
    IN  IF cert = Raised \/ file = Garbage
           \/ ~({"ciphertext", "signature", "signed_timestamp"}
                    \subseteq DOMAIN enc_data)
        THEN [raised |-> TRUE]
        ELSE [raised |-> FALSE,
              metadata |-> [title |-> package.title,
                            created |-> package.created,
                            imported_from |-> cert.subject],
              encrypted_data |-> package.encrypted_data,
              sig_valid |-> verify_signature(self, file, enc_data.ciphertext,
                                enc_data.signature, enc_data.signed_timestamp,
                                str(cert.serial_number), None, cert)[1],
              is_revoked |-> is_revoked(file, str(cert.serial_number)),
              cert |-> cert]

(***************************************************************************)
(* ShareSpec: two registered users and a manager without keys.  A user     *)
(* seals an entry; any of them exports it with the certificate it holds,   *)
(* and any of them imports the package or tries to decrypt the envelope.   *)
(***************************************************************************)
\* The empty entry and "hi".
SharePlaintexts == {<<>>, <<104, 105>>}
EntryIds == {1, 2}
Metadata == {[title |-> "t", created |-> isoformat(0)]}

ExportEntry(i, entry_id, metadata) ==
    /\ env.pc = "sealed"
    /\ LET r == export_entry(km[i], entry_id, metadata, env.data)
       IN  env' = IF r.raised
                  THEN [pc |-> "export_refused", owner |-> env.owner,
                        signed |-> env.signed, data |-> env.data,
                        exporter |-> i]
                  ELSE [pc |-> "exported", owner |-> env.owner,
                        signed |-> env.signed, data |-> env.data,
                        exporter |-> i, entry_id |-> entry_id,
                        metadata |-> metadata, package |-> r.package,
                        imports |-> {}]
    /\ UNCHANGED env_rest

\* env.imports collects what each importer of the package was given.
ImportEntry(j) ==
    /\ env.pc = "exported"
    /\ LET r == import_entry(km[j], ledger, env.package)
       IN  env' = [env EXCEPT !.imports =
                      @ \cup {[importer |-> j, result |-> r]}]
    /\ UNCHANGED env_rest

ShareNext ==
    \/ \E i \in Insts, plaintext \in SharePlaintexts : EncryptEntry(i, plaintext)
    \/ \E i \in Insts, plaintext \in SharePlaintexts : EncryptAndSign(i, plaintext)
    \/ \E i \in Insts, entry_id \in EntryIds, metadata \in Metadata :
          ExportEntry(i, entry_id, metadata)
    \/ \E j \in Insts : ImportEntry(j)
    \/ \E j \in Insts : DecryptEntry(j)

ShareSpec == EnvInit /\ [][ShareNext]_vars

(***************************************************************************)
(* VerSpec: verify_signature called with any arguments by the two          *)
(* registered users and by a manager without keys, over a ledger that may  *)
(* have become unreadable.                                                 *)
(***************************************************************************)
\* revoked_certificates.json overwritten by something that is no JSON.
DamageLedger ==
    /\ ledger # Garbage
    /\ ledger' = Garbage
    /\ last' = [op |-> "damage_ledger"]
    /\ UNCHANGED <<km, keystore, cert_file, nkeys, ncerts, msgs, saved,
                   seen_valid, revoke_ok>>
    /\ UNCHANGED aux

\* Signatures a caller may pass: one sign_entry returned, None, a string
\* that is no base64, and base64 of bytes that are no signature.
SigInputs ==
    {msgs[m].info.signature : m \in 1 .. Len(msgs)}
        \cup {None, Garbage, b64encode(Garbage)}
SerialInputs == Serials \cup {None, [t |-> "str", s |-> <<>>]}
\* The key and the certificate of alice, or the argument left out.
KeyInputs == {None, km["a1"].public_key}
CertInputs == {None, km["a1"].certificate}

VerifyAny(j, data, signature_b64, timestamp, cert_serial, public_key, certificate) ==
    LET r == verify_signature_call(km[j], ledger, data, signature_b64,
                                   timestamp, cert_serial, public_key,
                                   certificate)
    IN  /\ last' = [op |-> "verify_signature", inst |-> j, data |-> data,
                    signature_b64 |-> signature_b64, timestamp |-> timestamp,
                    cert_serial |-> cert_serial,
                    pub_key |-> IF certificate # None
                                THEN certificate.public_key
                                ELSE IF public_key # None THEN public_key
                                ELSE km[j].public_key,
                    raised |-> r.raised, ret |-> r.ret]
        /\ UNCHANGED <<km, keystore, cert_file, ledger, nkeys, ncerts,
                       msgs, saved, seen_valid, revoke_ok>>
        /\ UNCHANGED aux

VerNext ==
    \/ \E i \in Insts : SignEntry(i, "hello", 0)
    \/ \E i \in Sessions, serial_number \in Serials :
          ledger # Garbage /\ RevokeCertificate(i, serial_number, user_dir(i), 0)
    \/ DamageLedger
    \/ \E j \in Insts, data \in {"hello"}, signature_b64 \in SigInputs,
          timestamp \in {isoformat(0), None}, cert_serial \in SerialInputs,
          public_key \in KeyInputs, certificate \in CertInputs :
          VerifyAny(j, data, signature_b64, timestamp, cert_serial,
                    public_key, certificate)

VerSpec == EnvInit /\ [][VerNext]_vars

(***************************************************************************)
(* StoreSpec: the managers of one directory with everything KeyManager     *)
(* writes to disk (keystore, certificate file, ledger), and                *)
(* export_private_key_pem, which hands the private key to its caller.      *)
(***************************************************************************)
\* private_bytes with BestAvailableEncryption(password.encode()).
encrypted_pem(obj, password) ==
    [t |-> "PEM",
     of |-> [t |-> "EncryptedPrivateKeyInfo", password |-> password,
             plain |-> obj]]

\* Returns the PEM string and writes nothing; the password "" stands for
\* None (both are false in `if password:`).
export_private_key_pem(self, password) ==
    IF self.private_key = None THEN None
    ELSE IF password # "" THEN encrypted_pem(self.private_key, password)
    ELSE pem(self.private_key)

ExportPrivateKeyPem(i, password) ==
    /\ last' = [op |-> "export_private_key_pem", inst |-> i,
                password |-> password,
                ret |-> export_private_key_pem(km[i], password)]
    /\ UNCHANGED <<km, keystore, cert_file, ledger, nkeys, ncerts, msgs,
                   saved, seen_valid, revoke_ok>>
    /\ UNCHANGED aux

StoreNext ==
    \/ \E i \in KsInsts : GenerateKeyPair(i, KEY_SIZE)
    \/ \E i \in KsInsts : GenerateSelfSignedCertificate(i, 0)
    \/ \E i \in KsInsts, password \in Passwords : SaveKeystore(i, password)
    \/ \E i \in KsInsts : SaveKeystoreInterrupted(i, "pw1", "dump")
    \/ \E i \in KsInsts, serial_number \in Serials :
          RevokeCertificate(i, serial_number, user_dir(i), 0)
    \/ \E i \in KsInsts, password \in {"", "pw1"} :
          ExportPrivateKeyPem(i, password)

StoreSpec == Init /\ [][StoreNext]_vars

(***************************************************************************)
(* DiarySpec: the entries of the two registered users, saved, edited and   *)
(* saved again.  os.urandom is the source of the operating system: every   *)
(* call takes its next output, and env.draws counts the outputs taken.     *)
(***************************************************************************)
MaxSaves == 3
\* "hi" and "a"; save_entry refuses an empty content.
Contents == {<<104, 105>>, <<97>>}

DiaryInit ==
    /\ RegisteredInit
    /\ env = [pc |-> "diary", draws |-> 0,
              entries |-> [d \in Dirs |-> <<>>], made |-> <<>>, updates |-> 0]

\* CryptDiaryApp.save_entry: encrypt_and_sign(content), then update_entry
\* for the entry that is open in the editor (entry > 0) or save_entry for a
\* new one (entry = 0, current_entry_id is None).  os.urandom is called
\* before anything in encrypt_entry can raise.
SaveEntry(i, content, entry) ==
    /\ env.pc = "diary"
    /\ Len(env.made) < MaxSaves
    /\ entry \in 0 .. Len(env.entries[user_dir(i)])
    /\ LET r == encrypt_and_sign(km[i], content, env.draws + 1, env.draws + 2, 0)
           d == user_dir(i)
       IN  env' = IF r.raised
                  THEN [env EXCEPT !.draws = @ + 2]
                  ELSE [env EXCEPT
                          !.draws = @ + 2,
                          !.entries[d] = IF entry = 0 THEN Append(@, r.data)
                                         ELSE [@ EXCEPT ![entry] = r.data],
                          !.made = Append(@, [owner |-> i, content |-> content,
                                              data |-> r.data]),
                          !.updates = IF entry = 0 THEN @ ELSE @ + 1]
    /\ UNCHANGED env_rest

\* encrypt_entry called on its own; the envelope is not stored.
EncryptEntryCall(i, plaintext) ==
    /\ env.pc = "diary"
    /\ Len(env.made) < MaxSaves
    /\ LET r == encrypt_entry(km[i], plaintext, env.draws + 1, env.draws + 2, 0)
       IN  env' = IF r.raised
                  THEN [env EXCEPT !.draws = @ + 2]
                  ELSE [env EXCEPT
                          !.draws = @ + 2,
                          !.made = Append(@, [owner |-> i, content |-> plaintext,
                                              data |-> r.data])]
    /\ UNCHANGED env_rest

DiaryNext ==
    \/ \E i \in Sessions, content \in Contents, entry \in 0 .. MaxSaves :
          SaveEntry(i, content, entry)
    \/ \E i \in Sessions, plaintext \in Contents \cup {<<>>} :
          EncryptEntryCall(i, plaintext)

DiarySpec == DiaryInit /\ [][DiaryNext]_vars

(***************************************************************************)
(* TrustSpec: ShareSpec with the ledger in use.  The registered users      *)
(* revoke certificates while entries are sealed, exported, imported and    *)
(* read, and every lookup of the ledger is a step.                         *)
(***************************************************************************)
GetRevokedCertificates(i) ==
    /\ last' = [op |-> "get_revoked_certificates", inst |-> i,
                ret |-> get_revoked_certificates(ledger)]
    /\ UNCHANGED <<km, keystore, cert_file, ledger, nkeys, ncerts, msgs,
                   saved, seen_valid, revoke_ok>>
    /\ UNCHANGED aux

\* verify_signature over the fields of the sealed envelope, with the
\* caller's own key.
VerifyEnvelope(j) ==
    /\ env.pc = "sealed"
    /\ env.signed
    /\ VerifyAny(j, env.data.ciphertext, env.data.signature,
                 env.data.signed_timestamp, env.data.cert_serial, None, None)

TrustNext ==
    \/ \E i \in Insts, plaintext \in SharePlaintexts : EncryptEntry(i, plaintext)
    \/ \E i \in Insts, plaintext \in SharePlaintexts : EncryptAndSign(i, plaintext)
    \/ \E i \in Insts, metadata \in Metadata : ExportEntry(i, 1, metadata)
    \/ \E j \in Insts : ImportEntry(j)
    \/ \E j \in Insts : VerifyAndDecrypt(j)
    \/ \E i \in Sessions, serial_number \in Serials :
          RevokeCertificate(i, serial_number, user_dir(i), 0)
    \/ \E i \in Insts, serial_number \in Serials : IsRevoked(i, serial_number)
    \/ \E i \in Insts : GetRevokedCertificates(i)
    \/ \E j \in Insts : VerifyEnvelope(j)

TrustSpec == EnvInit /\ [][TrustNext]_vars

(***************************************************************************)
(* FreshSpec: verify_signature with its clock.  After the signature check  *)
(* has passed, the method parses the timestamp and compares it with        *)
(* datetime.utcnow(); clock readings are days.                             *)
(***************************************************************************)
FRESH_DAYS == 30

\* datetime.fromisoformat(timestamp.replace('Z', '+00:00')): raises for
\* None and for a string that is no ISO date.
parse_timestamp(timestamp) ==
    IF timestamp.t = "iso" THEN [ok |-> TRUE, v |-> timestamp.v]
    ELSE [ok |-> FALSE, v |-> 0]

\* A freshness check that lets its errors out and rejects an old timestamp.
freshness_check_enforced(timestamp, now) ==
    LET sig_time == parse_timestamp(timestamp)
    IN  IF ~sig_time.ok THEN [raised |-> TRUE, warning |-> FALSE]
        ELSE [raised |-> now - sig_time.v > FRESH_DAYS,
              warning |-> now - sig_time.v > FRESH_DAYS]

\* The inner try block: it prints a warning for an age of more than 30
\* days, and its bare except swallows whatever the parsing raises.
freshness_check(timestamp, now) ==
    LET sig_time == parse_timestamp(timestamp)
    IN  IF ~sig_time.ok THEN [raised |-> FALSE, warning |-> FALSE]
        ELSE [raised |-> FALSE, warning |-> now - sig_time.v > FRESH_DAYS]

\* verify_signature called when the clock reads `now`: the verdict and
\* whether the warning was printed.  An exception leaving the freshness
\* check would reach except Exception.
verify_signature_at(self, file, data, signature_b64, timestamp, cert_serial, certificate, now) ==
    LET body == verify_signature_try(self, file, data, signature_b64, timestamp, cert_serial, None, certificate)
    IN  IF body.exc # "none" THEN [ret |-> <<FALSE, FALSE>>, warning |-> FALSE]
        ELSE LET fresh == freshness_check(timestamp, now)
             IN  IF fresh.raised
                 THEN [ret |-> <<FALSE, FALSE>>, warning |-> fresh.warning]
                 ELSE [ret |-> body.ret, warning |-> fresh.warning]

\* Clock readings at verification: the day of signing, 30 days on, and
\* later.
Nows == {0, FRESH_DAYS, FRESH_DAYS + 1 + MaxClock}

\* Timestamps that are no date: None, and a string of two digits.
NoDates == {None, [t |-> "str", s |-> <<1, 2>>]}

\* What a verifier is handed: a result of sign_entry, or a signature alice
\* made with her key over the same structure with a timestamp that is no
\* date.
Signed ==
    {[signature |-> msgs[m].info.signature, data |-> msgs[m].data,
      timestamp |-> msgs[m].info.signed_timestamp,
      cert_serial |-> msgs[m].info.cert_serial,
      certificate |-> msgs[m].certificate] : m \in 1 .. Len(msgs)}
    \cup
    {[signature |-> b64encode(pss_sign(km[i].private_key,
                                       signed_structure("hello", ts))),
      data |-> "hello", timestamp |-> ts,
      cert_serial |-> get_certificate_serial(km[i]),
      certificate |-> km[i].certificate] : i \in {"a1"}, ts \in NoDates}

\* j verifies s at clock reading `now`, with its own key or with the
\* signer's certificate, for the timestamp it was handed or for another.
VerifyAt(j, s, timestamp, with_cert, now) ==
    LET certificate == IF with_cert THEN s.certificate ELSE None
        r == verify_signature_at(km[j], ledger, s.data, s.signature, timestamp,
                                 s.cert_serial, certificate, now)
    IN  /\ last' = [op |-> "verify_signature", inst |-> j, data |-> s.data,
                    signature_b64 |-> s.signature, timestamp |-> timestamp,
                    cert_serial |-> s.cert_serial,
                    pub_key |-> pub_key_used(km[j], certificate),
                    now |-> now, warning |-> r.warning, ret |-> r.ret]
        /\ UNCHANGED <<km, keystore, cert_file, ledger, nkeys, ncerts,
                       msgs, saved, seen_valid, revoke_ok>>
        /\ UNCHANGED aux

FreshNext ==
    \/ \E i \in Sessions, t \in Times : SignEntry(i, "hello", t)
    \/ \E i \in Sessions, serial_number \in Serials :
          RevokeCertificate(i, serial_number, user_dir(i), 0)
    \/ \E j \in Insts, s \in Signed, with_cert \in BOOLEAN, now \in Nows :
          \E timestamp \in {s.timestamp, isoformat(MaxClock + 1)} :
              VerifyAt(j, s, timestamp, with_cert, now)

FreshSpec == EnvInit /\ [][FreshNext]_vars

(***************************************************************************)
(* ReadSpec: one envelope of a registered user, changed in one of its      *)
(* fields by someone with access to the entry file, and then read with     *)
(* verify_and_decrypt (load_entry of the application), while certificates  *)
(* are revoked.                                                            *)
(***************************************************************************)
\* Changes of fields the signature does not cover, and of the signature
\* and the ciphertext.
UnsignedEdits == {"encrypted_key", "iv", "timestamp", "cert_serial_removed",
                  "cert_serial_other", "cert_serial_null"}
SignedEdits == {"signature_removed", "signature_other", "ciphertext"}

without(data, field) == [f \in DOMAIN data \ {field} |-> data[f]]

\* The envelope after the change; other_serial is the serial of another
\* certificate than the signer's.
edited(data, edit, other_serial) ==
    IF edit = "encrypted_key" THEN tamper(data, "encrypted_key", 1, 0)
    ELSE IF edit = "iv" THEN tamper(data, "iv", 1, 0)
    ELSE IF edit = "ciphertext" THEN tamper(data, "ciphertext", 1, 0)
    ELSE IF edit = "timestamp"
    THEN [data EXCEPT !.timestamp = isoformat(MaxClock + 1)]
    ELSE IF edit = "cert_serial_removed" THEN without(data, "cert_serial")
    ELSE IF edit = "cert_serial_other"
    THEN [data EXCEPT !.cert_serial = other_serial]
    ELSE IF edit = "cert_serial_null" THEN [data EXCEPT !.cert_serial = None]
    ELSE IF edit = "signature_removed" THEN without(data, "signature")
    ELSE [data EXCEPT !.signature = b64encode(Garbage)]

EditEnvelope(edit) ==
    /\ env.pc = "sealed"
    /\ env.tampered = None
    /\ env.signed \/ edit \in {"encrypted_key", "iv", "timestamp", "ciphertext"}
    /\ LET other == CHOOSE i \in Sessions : i # env.owner
       IN  env' = [env EXCEPT
                     !.data = edited(env.data, edit,
                                     get_certificate_serial(km[other])),
                     !.tampered = [edit |-> edit, original |-> env.data]]
    /\ UNCHANGED env_rest

ReadNext ==
    \/ \E i \in Sessions, plaintext \in SharePlaintexts : EncryptEntry(i, plaintext)
    \/ \E i \in Sessions, plaintext \in SharePlaintexts : EncryptAndSign(i, plaintext)
    \/ \E edit \in UnsignedEdits \cup SignedEdits : EditEnvelope(edit)
    \/ \E i \in Sessions, serial_number \in Serials :
          RevokeCertificate(i, serial_number, user_dir(i), 0)
    \/ \E j \in Insts : VerifyAndDecrypt(j)

ReadSpec == EnvInit /\ [][ReadNext]_vars

(***************************************************************************)
(* UserSpec: the UserManager of one users directory.  Users register,      *)
(* authenticate, log in and change their password, giving their name in    *)
(* either letter case; every call builds its own KeyManager on the         *)
(* directory users_dir / username.                                         *)
(***************************************************************************)
\* Names as typed: one name in two letter cases, and another user.
Usernames == {"alice", "ALICE", "bob"}
\* Two passwords register_user accepts and one it finds too short.
UserPasswords == {"secret1", "secret2", "pw1"}

\* str.lower() on the names above.
lower(username) == IF username = "ALICE" THEN "alice" ELSE username

\* PBKDF2-HMAC-SHA256, 32 bytes, 100000 iterations.
_hash_password(password, salt) ==
    [t |-> "pbkdf2", password |-> password, salt |-> salt,
     length |-> 32, iterations |-> 100000]

username_exists(users_db, username) ==
    \E n \in 1 .. Len(users_db) :
        lower(users_db[n].username) = lower(username)

\* users_dir / username: the path is spelled as the name was typed.
get_user_dir(username) == username

\* The first record with the name in any letter case whose stored hash is
\* the hash of the password under the stored salt; None without one.
authenticate_user(users_db, username, password) ==
    LET hits == {n \in 1 .. Len(users_db) :
                    /\ lower(users_db[n].username) = lower(username)
                    /\ _hash_password(password, b64decode(users_db[n].salt))
                       = b64decode(users_db[n].password_hash)}
    IN  IF hits = {} THEN None
        ELSE users_db[CHOOSE n \in hits : \A m \in hits : n <= m]

\* Python's True, or the message returned in its place.
ReturnsTrue == [ok |-> TRUE, message |-> ""]
Returns(message) == [ok |-> FALSE, message |-> message]

UserInit ==
    /\ km = [i \in Insts |-> KeyManager_init]
    /\ keystore = [d \in Usernames |-> NoFile]
    /\ cert_file = [d \in Usernames |-> NoFile]
    /\ ledger = NoFile
    /\ nkeys = 0
    /\ ncerts = 0
    /\ msgs = <<>>
    /\ last = [op |-> "init"]
    /\ saved = [d \in Usernames |-> None]
    /\ seen_valid = {}
    /\ revoke_ok = {}
    /\ proc = [p \in Procs |-> [pc |-> "idle", done |-> None]]
    /\ env = [pc |-> "users", users_db |-> <<>>]

user_rest == <<km, ledger, msgs, saved, seen_valid, revoke_ok, proc>>

RegisterUser(username, password) ==
    /\ env.pc = "users"
    /\ nkeys < MaxKeys
    /\ ncerts < MaxCerts
    /\ \E salt \in Rand, keystore_salt \in Rand, iv \in Rand :
        IF Len(username) < 3
        THEN /\ last' = [op |-> "register_user", username |-> username,
                         password |-> password,
                         ret |-> Returns("Username must be at least 3 characters")]
             /\ UNCHANGED <<env, keystore, cert_file, nkeys, ncerts>>
        ELSE IF username_exists(env.users_db, username)
        THEN /\ last' = [op |-> "register_user", username |-> username,
                         password |-> password,
                         ret |-> Returns("Username already exists")]
             /\ UNCHANGED <<env, keystore, cert_file, nkeys, ncerts>>
        ELSE IF Len(password) < 6
        THEN /\ last' = [op |-> "register_user", username |-> username,
                         password |-> password,
                         ret |-> Returns("Password must be at least 6 characters")]
             /\ UNCHANGED <<env, keystore, cert_file, nkeys, ncerts>>
        ELSE LET user_dir_ == get_user_dir(username)
                 k1 == generate_key_pair(KeyManager_init, nkeys + 1, KEY_SIZE).self
                 k2 == generate_self_signed_certificate(
                           k1, username, random_serial_number(ncerts + 1), 0).self
                 w == save_keystore(k2, password, keystore_salt, iv)
                 user_record == [username |-> username,
                                 password_hash |->
                                     b64encode(_hash_password(password, salt)),
                                 salt |-> b64encode(salt),
                                 user_dir |-> user_dir_]
             IN  /\ nkeys' = nkeys + 1
                 /\ ncerts' = ncerts + 1
                 /\ keystore' = [keystore EXCEPT ![user_dir_] = w.keystore]
                 /\ cert_file' = [cert_file EXCEPT ![user_dir_] = w.cert]
                 /\ env' = [env EXCEPT !.users_db = Append(@, user_record)]
                 /\ last' = [op |-> "register_user", username |-> username,
                             password |-> password, ret |-> ReturnsTrue]
    /\ UNCHANGED user_rest

AuthenticateUser(username, password) ==
    /\ env.pc = "users"
    /\ last' = [op |-> "authenticate_user", username |-> username,
                password |-> password,
                ret |-> authenticate_user(env.users_db, username, password)]
    /\ UNCHANGED <<env, keystore, cert_file, nkeys, ncerts>>
    /\ UNCHANGED user_rest

\* login of the application: authenticate_user, then load_keystore of a
\* KeyManager on get_user_dir(username).
Login(username, password) ==
    /\ env.pc = "users"
    /\ LET user_record == authenticate_user(env.users_db, username, password)
       IN  last' = [op |-> "login", username |-> username,
                    password |-> password,
                    authenticated |-> user_record # None,
                    loaded |-> /\ user_record # None
                               /\ load_keystore(KeyManager_init,
                                                keystore[get_user_dir(username)],
                                                password).ret]
    /\ UNCHANGED <<env, keystore, cert_file, nkeys, ncerts>>
    /\ UNCHANGED user_rest

ChangePassword(username, old_password, new_password) ==
    /\ env.pc = "users"
    /\ \E salt \in Rand, keystore_salt \in Rand, iv \in Rand :
        LET user_record == authenticate_user(env.users_db, username, old_password)
            call == [op |-> "change_password", username |-> username,
                     password |-> old_password, new_password |-> new_password]
        IN  IF user_record = None
            THEN /\ last' = call @@
                            [ret |-> Returns("Current password is incorrect")]
                 /\ UNCHANGED <<env, keystore, cert_file>>
            ELSE IF Len(new_password) < 6
            THEN /\ last' = call @@
                        [ret |-> Returns("New password must be at least 6 characters")]
                 /\ UNCHANGED <<env, keystore, cert_file>>
            ELSE LET n == CHOOSE m \in 1 .. Len(env.users_db) :
                              /\ lower(env.users_db[m].username) = lower(username)
                              /\ \A l \in 1 .. m - 1 :
                                    lower(env.users_db[l].username) # lower(username)
                     user_dir_ == get_user_dir(username)
                     r == load_keystore(KeyManager_init, keystore[user_dir_],
                                        old_password)
                     w == save_keystore(r.self, new_password, keystore_salt, iv)
                 IN  /\ env' = [env EXCEPT
                                  !.users_db[n].password_hash =
                                      b64encode(_hash_password(new_password, salt)),
                                  !.users_db[n].salt = b64encode(salt)]
                     /\ keystore' = IF r.ret
                                    THEN [keystore EXCEPT ![user_dir_] = w.keystore]
                                    ELSE keystore
                     /\ cert_file' = IF r.ret /\ w.cert # NoFile
                                     THEN [cert_file EXCEPT ![user_dir_] = w.cert]
                                     ELSE cert_file
                     /\ last' = call @@ [ret |-> ReturnsTrue]
    /\ UNCHANGED <<nkeys, ncerts>>
    /\ UNCHANGED user_rest

UserNext ==
    \/ \E username \in Usernames, password \in UserPasswords :
          RegisterUser(username, password)
    \/ \E username \in Usernames, password \in UserPasswords :
          AuthenticateUser(username, password)
    \/ \E username \in Usernames, password \in UserPasswords :
          Login(username, password)
    \/ \E username \in Usernames, old_password \in UserPasswords,
          new_password \in UserPasswords :
          ChangePassword(username, old_password, new_password)

UserSpec == UserInit /\ [][UserNext]_vars

(***************************************************************************)
(* Properties.                                                             *)
(***************************************************************************)
\* The call in `last` verified message m with the data and the timestamp
\* sign_entry was given and returned.
VerifiesAsSigned ==
    /\ last.op = "verify_signature"
    /\ last.data = msgs[last.msg].data
    /\ last.timestamp = msgs[last.msg].info.signed_timestamp

InLedger(serial_number) ==
    /\ ledger # NoFile
    /\ \E n \in 1 .. Len(ledger.revoked) : ledger.revoked[n].serial = serial_number

\* C2: a signature made by sign_entry(D), verified by the same manager (still
\* holding the key it signed with) for D and the returned timestamp and
\* serial, yields (valid=True, revoked=False) while the signer's serial is
\* not in the ledger.
C2_SignThenVerify ==
    ( /\ VerifiesAsSigned
      /\ last.mode = "own"
      /\ last.inst = msgs[last.msg].signer
      /\ km[last.inst].private_key = msgs[last.msg].signed_with
      /\ ~InLedger(msgs[last.msg].info.cert_serial) )
    => last.ret = <<TRUE, FALSE>>

C2_Witness ==
    /\ VerifiesAsSigned
    /\ last.mode = "own"
    /\ last.inst = msgs[last.msg].signer
    /\ km[last.inst].private_key = msgs[last.msg].signed_with
    /\ msgs[last.msg].info.cert_serial # None
    /\ ledger # NoFile
    /\ ~InLedger(msgs[last.msg].info.cert_serial)
    /\ last.ret = <<TRUE, FALSE>>

\* C3: a signature that verified as valid (and unrevoked) under some public
\* key, re-verified under the same key for the same data and timestamp after
\* revoke_certificate has returned True for the signer's serial, yields
\* (valid=True, revoked=True).
C3_RevocationKeepsValid ==
    ( /\ VerifiesAsSigned
      /\ <<last.msg, last.pub_key>> \in seen_valid
      /\ msgs[last.msg].info.cert_serial \in revoke_ok )
    => last.ret = <<TRUE, TRUE>>

\* bob, holding only alice's certificate, re-verifies after alice revoked.
C3_Witness ==
    /\ VerifiesAsSigned
    /\ last.inst = "b1"
    /\ last.mode = "cert"
    /\ msgs[last.msg].signer = "a1"
    /\ <<last.msg, last.pub_key>> \in seen_valid
    /\ msgs[last.msg].info.cert_serial \in revoke_ok
    /\ last.ret = <<TRUE, TRUE>>

\* The entries of the ledger file for one serial.
EntriesFor(file, serial_number) ==
    LET revoked == _load_global_revoked(file).revoked
    IN  {n \in 1 .. Len(revoked) : revoked[n].serial = serial_number}

\* C4: the first revoke_certificate(serial) appends one entry and returns
\* True; a later call for the same serial returns False and leaves the
\* ledger as it was, so the serial keeps exactly one entry, the first one.
C4_RevokeTwice ==
    last.op = "revoke_certificate" =>
        /\ Cardinality(EntriesFor(ledger, last.serial)) = 1
        /\ last.again => (last.ret = FALSE /\ ledger = last.before)
        /\ ~last.again =>
              /\ last.ret = TRUE
              /\ Len(ledger.revoked) = Len(_load_global_revoked(last.before).revoked) + 1
              /\ ledger.revoked[Len(ledger.revoked)].serial = last.serial

\* The second call comes from another user than the first: the entry still
\* names the first.
C4_Witness ==
    /\ last.op = "revoke_certificate"
    /\ last.again
    /\ last.ret = FALSE
    /\ last.username = "bob"
    /\ \E n \in EntriesFor(ledger, last.serial) :
           ledger.revoked[n].revoked_by = "alice"

\* C9: load_keystore with another password than the last save_keystore of
\* that keystore returns False and leaves private_key, public_key and
\* certificate of the KeyManager as they were.
C9_WrongPassword ==
    ( /\ last.op = "load_keystore"
      /\ saved[user_dir(last.inst)] # None
      /\ last.password # saved[user_dir(last.inst)].password )
    => (last.ret = FALSE /\ km[last.inst] = last.before)

\* The manager holds keys of its own, other than the stored ones.
C9_Witness ==
    /\ last.op = "load_keystore"
    /\ saved[user_dir(last.inst)] # None
    /\ last.password # saved[user_dir(last.inst)].password
    /\ last.before.private_key # None
    /\ pem(last.before.private_key) # saved[user_dir(last.inst)].private_key
    /\ last.ret = FALSE
    /\ km[last.inst] = last.before

\* C10: load_keystore with the password of the last save_keystore returns
\* True and leaves keys and certificate whose PEM serializations are those
\* held at save time; no certificate at save time leaves certificate None.
C10_SaveLoadRoundTrip ==
    ( /\ last.op = "load_keystore"
      /\ saved[user_dir(last.inst)] # None
      /\ last.password = saved[user_dir(last.inst)].password )
    => /\ last.ret = TRUE
       /\ pem(km[last.inst].private_key) = saved[user_dir(last.inst)].private_key
       /\ pem(km[last.inst].public_key) = saved[user_dir(last.inst)].public_key
       /\ export_certificate_pem(km[last.inst]) = saved[user_dir(last.inst)].certificate

\* Another manager of the same directory, holding a certificate of its own,
\* loads a keystore that was saved without one.
C10_Witness ==
    /\ last.op = "load_keystore"
    /\ saved[user_dir(last.inst)] # None
    /\ last.password = saved[user_dir(last.inst)].password
    /\ last.ret = TRUE
    /\ last.before.certificate # None
    /\ saved[user_dir(last.inst)].certificate = None
    /\ km[last.inst].certificate = None
    /\ km[last.inst].private_key # last.before.private_key

\* C5: two processes whose revoke_certificate calls for different serials
\* have both returned True leave both serials in the ledger.
C5_NoLostUpdate ==
    \A p \in Procs, q \in Procs :
        ( /\ p # q
          /\ proc[p].done # None
          /\ proc[q].done # None
          /\ proc[p].done.ret
          /\ proc[q].done.ret
          /\ proc[p].done.serial # proc[q].done.serial )
        => (InLedger(proc[p].done.serial) /\ InLedger(proc[q].done.serial))

\* C6: once revoke_certificate(serial) has returned True, every later
\* is_revoked(serial), from any process, returns True.
C6_RevokedForGood ==
    (last.op = "is_revoked" /\ last.serial \in revoke_ok) => last.ret = TRUE

\* C7: no serial appears in more than one entry of the ledger.
C7_SerialAtMostOnce ==
    \A serial_number \in ConcSerials :
        Cardinality(EntriesFor(ledger, serial_number)) <= 1

\* Two processes raced on the same serial and both returned True.
C7_Witness ==
    /\ \E p \in Procs, q \in Procs :
          /\ p # q
          /\ proc[p].done # None
          /\ proc[q].done # None
          /\ proc[p].done.ret
          /\ proc[q].done.ret
          /\ proc[p].done.serial = proc[q].done.serial
    /\ ledger # NoFile
    /\ Len(ledger.revoked) = MaxCerts


\* The owner has opened the envelope as it was sealed.
RoundTripCase ==
    /\ env.pc = "opened"
    /\ env.reader = env.owner
    /\ env.tampered = None

\* C1 as stated: for every plaintext string P, decrypt_entry(encrypt_entry(P))
\* with the same KeyManager returns exactly P: encrypt_entry refuses no
\* string, and the owner opening the unchanged envelope gets P back.
C1_RoundTripEveryString ==
    /\ env.pc # "refused"
    /\ RoundTripCase => (~env.raised /\ env.out = env.plaintext)

\* C1 amended: for every plaintext string P without a lone surrogate code
\* point (every P that str.encode() accepts), the empty string and the byte
\* lengths around a multiple of 16 included, encrypt_entry returns an
\* envelope and decrypt_entry of it with the same KeyManager returns P.
C1_RoundTrip ==
    /\ (env.pc = "refused" => ~encodable(env.plaintext))
    /\ RoundTripCase => (~env.raised /\ env.out = env.plaintext)
C1_Witness ==
    /\ RoundTripCase
    /\ env.op = "decrypt_entry"
    /\ Len(utf8_encode(env.plaintext)) = 2 * BLOCK
    /\ Len(env.plaintext) < 2 * BLOCK
    /\ env.out = env.plaintext

\* C8: for every envelope of encrypt_and_sign, after one bit of the
\* ciphertext, of the wrapped key or of the IV is changed, decrypt_entry
\* fails or verify_signature over the envelope's ciphertext says
\* valid=False.
C8_TamperDetected ==
    (/\ env.pc = "opened"
     /\ env.op = "verify_and_decrypt"
     /\ env.signed
     /\ env.reader = env.owner
     /\ env.tampered # None)
    => (env.raised \/ ~env.is_valid)


\* C11: load_keystore on a missing, malformed or incomplete keystore returns
\* False and leaves private_key, public_key and certificate as they were.
C11_FailClosed ==
    (last.op = "load_keystore" /\ last.ret = FALSE)
    => km[last.inst] = last.before

\* C18: whenever save_keystore fails or is stopped, the file at
\* keystore_path is the complete previous keystore or the complete new one.
C18_AtomicSave ==
    (last.op = "save_keystore" /\ last.raised /\ "stage" \in DOMAIN last)
    => keystore[user_dir(last.inst)] \in {last.file_before, last.file_new}

\* C19: generate_key_pair with a key size below 2048 bits fails and leaves
\* private_key and public_key unchanged.
C19_WeakKeyRefused ==
    (last.op = "generate_key_pair" /\ "key_size" \in DOMAIN last
     /\ last.key_size < KEY_SIZE)
    => (last.raised /\ km[last.inst] = last.before)

\* C20: generate_self_signed_certificate without a key pair raises and
\* leaves certificate unset; save_keystore without a key pair raises and
\* writes no file.
C20_Preconditions ==
    [][ /\ (last'.op = "generate_self_signed_certificate"
            /\ km[last'.inst].private_key = None)
           => (last'.raised /\ km' = km /\ km'[last'.inst].certificate = None)
        /\ (last'.op = "save_keystore" /\ km[last'.inst].private_key = None)
           => (last'.raised /\ keystore' = keystore /\ cert_file' = cert_file)
      ]_vars
\* A manager without keys tries to save over the keystore another manager
\* of the directory has written.
C20_Witness ==
    /\ last.op = "save_keystore"
    /\ km[last.inst].private_key = None
    /\ last.raised
    /\ keystore[user_dir(last.inst)] # NoFile


\* C15: a signature of sign_entry(D) verifies neither for a timestamp other
\* than the signed_timestamp it returned nor for data other than D,
\* whichever key or certificate the verifier uses.
C15_TimestampBound ==
    ( /\ last.op = "verify_signature"
      /\ \/ last.timestamp # msgs[last.msg].info.signed_timestamp
         \/ last.data # msgs[last.msg].data )
    => last.ret[1] = FALSE
\* The signer itself, with the right data and another timestamp.
C15_Witness ==
    /\ last.op = "verify_signature"
    /\ last.inst = msgs[last.msg].signer
    /\ km[last.inst].private_key = msgs[last.msg].signed_with
    /\ last.data = msgs[last.msg].data
    /\ last.timestamp # msgs[last.msg].info.signed_timestamp
    /\ last.ret = <<FALSE, FALSE>>


\* The call in `last` was given a signature sign_entry made, with its data
\* and timestamp, and checked it under the signer's public key.
Genuine ==
    \E m \in 1 .. Len(msgs) :
        /\ last.signature_b64 = msgs[m].info.signature
        /\ last.data = msgs[m].data
        /\ last.timestamp = msgs[m].info.signed_timestamp
        /\ last.pub_key = public_key_of(msgs[m].signed_with)

\* C14: verify_signature returns a pair for any arguments and never lets an
\* exception out; when the signature check fails or anything else goes
\* wrong (a malformed signature, no key, an unreadable ledger) the pair is
\* (False, False).
C14_VerdictNotException ==
    (last.op = "verify_signature")
    => /\ ~last.raised
       /\ last.ret \in BOOLEAN \X BOOLEAN
       /\ (~Genuine \/ (ledger = Garbage /\ truthy(last.cert_serial)))
          => last.ret = <<FALSE, FALSE>>
\* A good signature checked while the ledger cannot be read.
C14_Witness ==
    /\ last.op = "verify_signature"
    /\ Genuine
    /\ ledger = Garbage
    /\ truthy(last.cert_serial)
    /\ ~last.raised
    /\ last.ret = <<FALSE, FALSE>>


\* What importer j was given, for the importers of the package in env.
ImportsOf(j) == {x \in env.imports : x.importer = j}

\* C12: an envelope of encrypt_and_sign, exported by its signer and imported
\* by another identity, comes back unchanged with signatureValid=True and a
\* certificate carrying the signer's serial.
C12_ExportImport ==
    (env.pc = "exported" /\ env.signed /\ env.exporter = env.owner)
    => \A x \in env.imports :
          (km[x.importer].private_key # km[env.owner].private_key)
          => /\ ~x.result.raised
             /\ x.result.sig_valid
             /\ x.result.cert.serial_number
                    = km[env.owner].certificate.serial_number
             /\ x.result.encrypted_data = env.data
C12_Witness ==
    /\ env.pc = "exported"
    /\ env.signed
    /\ env.owner = "a1"
    /\ env.exporter = "a1"
    /\ \E x \in ImportsOf("b1") :
          x.result.sig_valid /\ x.result.encrypted_data = env.data

\* C13: all importers of one package get the same signatureValid, whatever
\* keys they hold.
C13_SameVerdict ==
    (env.pc = "exported" /\ env.signed)
    => \A x, y \in env.imports :
          (~x.result.raised /\ ~y.result.raised)
          => x.result.sig_valid = y.result.sig_valid
\* The signer and another user have both imported a package that carries
\* the other user's certificate.
C13_Witness ==
    /\ env.pc = "exported"
    /\ env.signed
    /\ env.owner = "a1"
    /\ env.exporter = "b1"
    /\ \E x \in ImportsOf("a1") : ~x.result.sig_valid
    /\ \E y \in ImportsOf("b1") : ~y.result.sig_valid

\* C16: decrypt_entry with a manager that holds another key pair than the
\* one the envelope was encrypted for raises and gives no plaintext;
\* import_entry works for a manager without a private key and hands back
\* the envelope still encrypted.
C16_OwnerOnly ==
    /\ (env.pc = "opened"
        /\ km[env.reader].private_key # km[env.owner].private_key)
       => (env.raised /\ env.out = <<>>)
    /\ (env.pc = "exported" /\ env.signed)
       => \A x \in env.imports :
             km[x.importer].private_key = None
             => (~x.result.raised /\ x.result.encrypted_data = env.data)
C16_Witness ==
    /\ env.pc = "opened"
    /\ env.owner = "a1"
    /\ env.reader = "b1"
    /\ env.plaintext # <<>>
    /\ env.raised

\* C17: export_entry raises exactly when the manager holds no certificate;
\* otherwise the package holds the entry id, title and created it was
\* given, the envelope unchanged and the PEM of the held certificate.
C17_ExportNeedsCertificate ==
    /\ env.pc = "export_refused" => km[env.exporter].certificate = None
    /\ env.pc = "exported"
       => /\ km[env.exporter].certificate # None
          /\ env.package =
                [entry_id |-> env.entry_id,
                 title |-> env.metadata.title,
                 created |-> env.metadata.created,
                 encrypted_data |-> env.data,
                 signer_certificate |-> pem(km[env.exporter].certificate)]
C17_Witness ==
    /\ env.pc = "export_refused"
    /\ env.exporter = "a2"
    /\ km["a2"].certificate = None


\* What a reader without key or password gets out of the bytes x is, or
\* contains, a private key.
RECURSIVE holds_plain_private_key(_)
holds_plain_private_key(x) ==
    IF x.t = "PEM" THEN x.of.t = "RSAPrivateKey"
    ELSE IF x.t = "b64" THEN holds_plain_private_key(x.of)
    ELSE IF x.t = "json"
    THEN \E f \in DOMAIN x.of : holds_plain_private_key(x.of[f])
    ELSE IF x.t = "padded" THEN holds_plain_private_key(x.data)
    ELSE FALSE

KeystoreFileLeaks(file) ==
    /\ file # NoFile
    /\ file # Garbage
    /\ holds_plain_private_key(file.data)

LedgerFileLeaks(file) ==
    /\ file # NoFile
    /\ file # Garbage
    /\ \E n \in 1 .. Len(file.revoked) :
          \/ holds_plain_private_key(file.revoked[n].serial)
          \/ holds_plain_private_key(file.revoked[n].timestamp)

\* C21: no file KeyManager has written (keystore, certificate file, ledger)
\* holds the private key in readable form; on disk the private key exists
\* only inside the password-encrypted blob of the keystore.
C21_NoPlainPrivateKey ==
    /\ \A d \in Dirs :
          /\ ~KeystoreFileLeaks(keystore[d])
          /\ ~holds_plain_private_key(cert_file[d])
    /\ ~LedgerFileLeaks(ledger)
\* All three files exist and export_private_key_pem has just returned the
\* unencrypted PEM to its caller.
C21_Witness ==
    /\ last.op = "export_private_key_pem"
    /\ last.ret = pem(km[last.inst].private_key)
    /\ keystore["alice"] # NoFile
    /\ keystore["alice"] # Garbage
    /\ b64decode(keystore["alice"].data).plain.data.of["private_key"]
          = b64encode(last.ret)
    /\ cert_file["alice"] # NoFile
    /\ ledger # NoFile


\* The symmetric key wrapped in an envelope, and its IV.
EnvelopeKey(data) == b64decode(data.encrypted_key).message
EnvelopeIv(data) == b64decode(data.iv)

\* C22: any two envelopes made by encrypt_entry / encrypt_and_sign, the
\* re-encryption of an edited entry included, differ in their symmetric key
\* and in their IV.
C22_FreshKeyAndIv ==
    \A a, b \in 1 .. Len(env.made) :
        a # b => /\ EnvelopeKey(env.made[a].data) # EnvelopeKey(env.made[b].data)
                 /\ EnvelopeIv(env.made[a].data) # EnvelopeIv(env.made[b].data)
\* An entry was saved, edited back to the same content and saved again by
\* the same user.
C22_Witness ==
    /\ env.updates > 0
    /\ \E a, b \in 1 .. Len(env.made) :
          /\ a < b
          /\ env.made[a].owner = env.made[b].owner
          /\ env.made[a].content = env.made[b].content
          /\ env.entries[user_dir(env.made[b].owner)] = <<env.made[b].data>>
          /\ env.made[a].data.ciphertext # env.made[b].data.ciphertext


\* The serial string of the certificate a package carries.
PackageSerial(package) ==
    str(load_pem(package.signer_certificate, "Certificate").serial_number)

\* C23: for a package with a signed envelope, import_entry returns, and its
\* revoked flag is true exactly when the serial of the certificate in the
\* package is in the ledger at the time of the import, whether the
\* signature verifies or not.
C23_ImportRevokedFlag ==
    [][ (env.pc = "exported" /\ env'.pc = "exported" /\ env.signed)
        => \A x \in env'.imports \ env.imports :
              /\ ~x.result.raised
              /\ x.result.is_revoked = InLedger(PackageSerial(env.package))
      ]_vars
\* A package whose signature does not verify under its certificate, which
\* is revoked: (signatureValid=False, revoked=True).
C23_Witness ==
    /\ env.pc = "exported"
    /\ env.signed
    /\ InLedger(PackageSerial(env.package))
    /\ \E x \in env.imports :
          /\ ~x.result.raised
          /\ ~x.result.sig_valid
          /\ x.result.is_revoked


\* The signature in `last` is the PSS signature of the structure of the
\* given data and timestamp under the key the verifier used.
CryptographicallyValid ==
    /\ last.pub_key # None
    /\ pss_verify(last.pub_key, b64decode(last.signature_b64),
                  signed_structure(last.data, last.timestamp))

\* C24: for a cryptographically valid signature verify_signature returns
\* valid=True at any clock reading, more than 30 days after the signed
\* timestamp included, and for a timestamp that is no date.
C24_FreshnessAdvisory ==
    (last.op = "verify_signature" /\ CryptographicallyValid)
    => last.ret[1] = TRUE
\* The warning was printed for a signature of sign_entry, and the verdict is
\* valid all the same.
C24_Witness ==
    /\ last.op = "verify_signature"
    /\ CryptographicallyValid
    /\ last.timestamp.t = "iso"
    /\ last.now - last.timestamp.v > FRESH_DAYS
    /\ last.warning
    /\ last.ret[1] = TRUE


\* C25: is_revoked, get_revoked_certificates, verify_signature,
\* verify_and_decrypt and import_entry leave the ledger file as it is; a
\* step that changes the ledger is a revoke_certificate call, and it leaves
\* the keys and certificates of every manager, the keystores and the
\* certificate files as they are.
C25_LookupsPure ==
    [][ /\ (last'.op \in {"is_revoked", "get_revoked_certificates",
                          "verify_signature"} \/ env' # env)
           => ledger' = ledger
        /\ (ledger' # ledger)
           => /\ last'.op = "revoke_certificate"
              /\ last'.before = ledger
              /\ km' = km
              /\ keystore' = keystore
              /\ cert_file' = cert_file
      ]_vars
\* get_revoked_certificates has returned the entries of a ledger that a
\* package was imported against.
C25_Witness ==
    /\ last.op = "get_revoked_certificates"
    /\ Len(last.ret) > 0
    /\ ledger.revoked = last.ret
    /\ env.pc = "exported"
    /\ \E x \in env.imports : ~x.result.raised /\ x.result.is_revoked


\* The step reads, with verify_and_decrypt, an envelope that differs from
\* the sealed one in a field other than ciphertext, signature and
\* signed_timestamp, and the call returns for both.
ReadsUnsignedEdit ==
    /\ env.pc = "sealed"
    /\ env'.pc = "opened"
    /\ env'.op = "verify_and_decrypt"
    /\ env.tampered # None
    /\ env.tampered.edit \in UnsignedEdits
    /\ ~env'.raised
    /\ ~verify_and_decrypt(km[env'.reader], ledger, env.tampered.original).raised

C27_RevokedSignerReported ==
    [][ ( /\ env.pc = "sealed"
          /\ env'.pc = "opened"
          /\ env'.op = "verify_and_decrypt"
          /\ env'.signed
          /\ ~env'.raised
          /\ env'.is_valid
          /\ InLedger(get_certificate_serial(km[env'.owner])) )
        => env'.is_revoked
      ]_vars

\* The step is a call of verify_and_decrypt.
ReadsEnvelope ==
    /\ env.pc = "sealed"
    /\ env'.pc = "opened"
    /\ env'.op = "verify_and_decrypt"

\* The envelope read is as encrypt_entry made it (no signature), or as
\* encrypt_and_sign made it but for the signature, removed or replaced.
SignatureMissingOrFailing ==
    \/ ~env.signed /\ env.tampered = None
    \/ /\ env.tampered # None
       /\ env.tampered.edit \in {"signature_removed", "signature_other"}

\* C28: verify_and_decrypt raises exactly when decrypt_entry of the same
\* envelope raises and otherwise returns decrypt_entry's plaintext, whatever
\* the signature: the owner reading her envelope with a missing or failing
\* signature gets (plaintext, False, False), and a read whose decryption
\* fails raises although the signature is valid.
C28_VerdictNeverGates ==
    [][ ReadsEnvelope
        => LET decrypted == decrypt_entry(km[env'.reader], env.data)
           IN  /\ env'.raised = decrypted.raised
               /\ ~decrypted.raised => env'.out = decrypted.plaintext
               /\ ( /\ SignatureMissingOrFailing
                    /\ env'.reader = env.owner )
                  => /\ ~env'.raised
                     /\ env'.out = env.plaintext
                     /\ ~env'.is_valid
                     /\ ~env'.is_revoked
      ]_vars
\* The owner, her certificate revoked, has read her envelope with the
\* signature replaced: the plaintext, not valid, not revoked.
C28_Witness ==
    /\ env.pc = "opened"
    /\ env.op = "verify_and_decrypt"
    /\ env.reader = env.owner
    /\ env.tampered # None
    /\ env.tampered.edit = "signature_other"
    /\ InLedger(get_certificate_serial(km[env.owner]))
    /\ ~env.raised
    /\ env.out = env.plaintext
    /\ env.out = <<104, 105>>
    /\ ~env.is_valid
    /\ ~env.is_revoked


\* C29: a KeyManager that holds a key pair and a certificate holds the
\* certificate of that key pair: the public key in the certificate is the
\* manager's public_key, after any sequence of generate_key_pair,
\* generate_self_signed_certificate, save_keystore and load_keystore.
C29_CertificateOfHeldKey ==
    \A i \in KsInsts :
        ( /\ km[i].private_key # None
          /\ km[i].public_key # None
          /\ km[i].certificate # None )
        => km[i].certificate.public_key = km[i].public_key


\* The keystore file in the directory of a registered user opens with the
\* password.
UnlocksKeystore(user_record, password) ==
    load_keystore(KeyManager_init, keystore[user_record.user_dir], password).ret

\* C30: for every registered user, a password authenticate_user accepts for
\* the name in any letter case opens the keystore of that user, after any
\* sequence of register_user and change_password; and when change_password
\* has returned True, the keystore of the user opens with the new password
\* and, the old one being another password, no longer with the old one.
C30_AcceptedPasswordUnlocks ==
    env.pc = "users"
    => /\ \A username \in Usernames, password \in UserPasswords :
            LET user_record ==
                    authenticate_user(env.users_db, username, password)
            IN  user_record # None => UnlocksKeystore(user_record, password)
       /\ ( /\ last.op = "change_password"
            /\ last.ret = ReturnsTrue )
          => LET user_record ==
                     authenticate_user(env.users_db, last.username,
                                       last.new_password)
             IN  /\ user_record # None
                 /\ UnlocksKeystore(user_record, last.new_password)
                 /\ last.password # last.new_password
                    => ~UnlocksKeystore(user_record, last.password)

====
